---- MODULE Spec2Model ----
(***************************************************************************)
(* Agent execution and progress-streaming core of the video-generation     *)
(* pipeline: BaseAgent.run_with_retry, the progress_queues registry with   *)
(* its stream consumers, and the generate handlers that sequence stages.   *)
(***************************************************************************)
EXTENDS Integers, Sequences, FiniteSets, TLC

(* ---------------- bounds of the model ---------------- *)
MaxRetriesBound == 3     \* max_retries of the agent under test ranges over 0..MaxRetriesBound
MaxCalls == 2            \* run_with_retry calls made on one agent instance
MaxScenes == 2           \* length of the storyboards given as input
MaxConcurrentFaults == 1  \* the same, in runs with two concurrent requests
MaxFaults == 4           \* exceptions raised by awaited calls of the handlers
MaxConfigs == 2          \* config files in the ModelManager's directory
MaxStoryScenes == 4      \* scenes of the storyboard given to the Storyboarding stage
MaxAsmScenes == 2        \* scenes of the storyboard given to the Assembling stage
MaxResults == 2          \* entries of its storyboard_images list and of its audio_files list
MaxScriptScenes == 2     \* scenes of a script handed to the post-validation
MaxClientCalls == 2      \* get_client calls made on one capability manager
MaxAudioScenes == 2      \* scenes of the storyboard handed to the AudioAgent

(* ---------------- program constants ---------------- *)
DefaultMaxRetries == 3   \* self.config.get("max_retries", 3)

VARIABLES
    \* --- one BaseAgent instance and the call in progress on it ---
    max_retries,     \* self.max_retries
    retry_count,     \* self.retry_count
    rpc,             \* position of the run_with_retry coroutine
    input,           \* kwargs["storyboard"] of the call: one flag per scene, "description" in scene
    calls,           \* run_with_retry calls started on the instance
    validateCalls,   \* validate_input invocations in the current call
    execCalls,       \* execute invocations in the current call
    attempts,        \* loop iterations begun in the current call
    sleeps,          \* asyncio.sleep calls of the current call: <<after attempt, seconds>>
    lastExc,         \* exception most recently raised inside the try block
    outcome          \* what the call handed to its caller

agentVars == <<max_retries, retry_count, rpc, input, calls, validateCalls,
               execCalls, attempts, sleeps, lastExc, outcome>>

VARIABLES
    \* --- one routes module: its registry, its handlers and its stream consumers ---
    route,             \* which routes module serves the requests
    progress_queues,   \* the module's registry: channel_id -> queue object
    queues,            \* the items waiting in each asyncio.Queue object
    put_log,           \* everything ever put into each queue object, in put order
    hs,                \* the generate handler of each request: position and locals
    cs,                \* the progress_generator of each stream response
    faults,            \* exceptions raised so far by the handlers' awaited calls
    requests           \* generate requests the clients make in this run

routeVars == <<route, progress_queues, queues, put_log, hs, cs, faults, requests>>

VARIABLES
    \* --- one ModelManager and the calls made on it and on its capability managers ---
    configs,           \* self._configs in insertion (discovery) order
    mq,                \* the get_fallback_chain / get_primary_model call last made
    gen,               \* the generate_text / generate_speech / generate_image call in progress
    story,             \* one StoryboardAgent.execute_with_streaming call
    asm                \* one VideoAgent.execute_with_streaming call

VARIABLES
    \* --- the script post-validation, one manager's client cache, one AudioAgent ---
    sv,                \* one TextLLMService._validate_and_enhance_script call
    cc,                \* self._client_cache of one capability manager and its get_client calls
    au                 \* one AudioAgent.execute_with_streaming call

extVars == <<sv, cc, au>>

libVars == <<configs, mq, gen, story, asm, extVars>>

vars == <<agentVars, routeVars, libVars>>

NoQuery == [op |-> "none", type |-> "-", provider |-> "-", result |-> <<>>]
IdleGen == [pc |-> "idle", kind |-> "-", explicit |-> FALSE, explicit_of |-> 0, todo |-> <<>>,
            visited |-> <<>>, outcomes |-> <<>>, result |-> "-"]

IdleStoryboard == [pc |-> "idle", limit |-> 0, sem |-> 0, tasks |-> <<>>, results |-> <<>>,
                   issued |-> {}, out |-> [storyboard_images |-> <<>>, total_generated |-> 0,
                                           successful_generations |-> 0,
                                           failed_generations |-> 0]]

IdleAssembly == [pc |-> "idle", storyboard |-> <<>>, storyboard_images |-> <<>>,
                 audio_files |-> <<>>, i |-> 0, attempts |-> <<>>, scene_videos |-> <<>>,
                 merge |-> "-", timeouts |-> {}]

NoScriptData == [has_total |-> FALSE, total_duration |-> 0, storyboard |-> <<>>]
IdleValidation == [pc |-> "idle", script_data |-> NoScriptData, out |-> NoScriptData]
NoCall == [provider |-> <<>>, model_id |-> <<>>, client |-> 0, hit |-> FALSE,
           initialised |-> FALSE]
IdleClients == [manager |-> "-", installed |-> TRUE, cache |-> {}, created |-> 0,
                produced |-> {}, n |-> 0, last |-> NoCall]
IdleAudio == [pc |-> "idle", storyboard |-> <<>>, i |-> 0, speech_calls |-> <<>>,
              audio_files |-> <<>>, successful |-> 0, failed |-> 0, full |-> "-"]

\* no script is being validated, no client requested, no narration in progress
ExtIdle ==
    /\ sv = IdleValidation
    /\ cc = IdleClients
    /\ au = IdleAudio

\* the managers and the stage agents are not in use
LibIdle ==
    /\ configs = <<>>
    /\ mq = NoQuery
    /\ gen = IdleGen
    /\ story = IdleStoryboard
    /\ asm = IdleAssembly
    /\ ExtIdle

NoExc == <<"none", 0>>
NoOutcome == [kind |-> "none", exc |-> NoExc, retry_count |-> 0]

RECURSIVE SeqsUpTo(_, _)
SeqsUpTo(S, n) ==
    IF n = 0 THEN {<<>>}
    ELSE LET shorter == SeqsUpTo(S, n - 1)
         IN  shorter \cup {Append(s, x) : s \in {t \in shorter : Len(t) = n - 1}, x \in S}

Storyboards == SeqsUpTo(BOOLEAN, MaxScenes)

(* ---------------- BaseAgent ---------------- *)

\* StoryboardAgent.validate_input: a non-empty list whose scenes all carry a description
ValidateInput(storyboard) ==
    /\ Len(storyboard) > 0
    /\ \A i \in 1..Len(storyboard) : storyboard[i]

\* `self.retry_count <= self.max_retries`: the loop guard and the test after a failure
AttemptsRemainStrict(rc, maxr) == rc < maxr
AttemptsRemain(rc, maxr) == rc <= maxr

\* `2 ** self.retry_count`
BackoffBeforeIncrement(rc) == 2 ^ (rc - 1)
BackoffSeconds(rc) == 2 ^ rc

\* the `except Exception as e:` block, entered with exception e
HandleException(e) ==
    /\ retry_count' = retry_count + 1
    /\ lastExc' = e
    /\ IF AttemptsRemain(retry_count + 1, max_retries)
       THEN /\ sleeps' = Append(sleeps, <<attempts, BackoffSeconds(retry_count + 1)>>)
            /\ rpc' = "sleeping"
            /\ outcome' = outcome
       ELSE /\ sleeps' = sleeps
            /\ rpc' = "done"
            /\ outcome' = [kind |-> "raised", exc |-> e, retry_count |-> retry_count + 1]

\* run_with_retry as it would be if each call started its count afresh
RunWithRetryResetting(sb) ==
    /\ rpc \in {"idle", "done"}
    /\ calls < MaxCalls
    /\ calls' = calls + 1
    /\ input' = sb
    /\ rpc' = "loop"
    /\ validateCalls' = 0
    /\ execCalls' = 0
    /\ attempts' = 0
    /\ sleeps' = <<>>
    /\ lastExc' = NoExc
    /\ outcome' = NoOutcome
    /\ retry_count' = 0
    /\ UNCHANGED max_retries
    /\ UNCHANGED <<routeVars, libVars>>

\* a caller invokes run_with_retry(storyboard = sb) on the instance
RunWithRetry(sb) ==
    /\ rpc \in {"idle", "done"}
    /\ calls < MaxCalls
    /\ calls' = calls + 1
    /\ input' = sb
    /\ rpc' = "loop"
    /\ validateCalls' = 0
    /\ execCalls' = 0
    /\ attempts' = 0
    /\ sleeps' = <<>>
    /\ lastExc' = NoExc
    /\ outcome' = NoOutcome
    /\ UNCHANGED <<max_retries, retry_count>>
    /\ UNCHANGED <<routeVars, libVars>>

\* the while condition is false: the function falls off its end and returns None
LoopExit ==
    /\ rpc = "loop"
    /\ ~AttemptsRemain(retry_count, max_retries)
    /\ rpc' = "done"
    /\ outcome' = [kind |-> "none_returned", exc |-> NoExc, retry_count |-> retry_count]
    /\ UNCHANGED <<max_retries, retry_count, input, calls, validateCalls, execCalls,
                   attempts, sleeps, lastExc>>
    /\ UNCHANGED <<routeVars, libVars>>

\* an iteration whose validate_input(**kwargs) is false: ValueError inside the try
AttemptInvalidExecutesFirst ==
    /\ rpc = "loop"
    /\ AttemptsRemain(retry_count, max_retries)
    /\ ~ValidateInput(input)
    /\ attempts' = attempts + 1
    /\ validateCalls' = validateCalls + 1
    /\ execCalls' = execCalls + 1
    /\ HandleException(<<"ValueError", validateCalls + 1>>)
    /\ UNCHANGED <<max_retries, input, calls>>
    /\ UNCHANGED <<routeVars, libVars>>

AttemptInvalid ==
    /\ rpc = "loop"
    /\ AttemptsRemain(retry_count, max_retries)
    /\ ~ValidateInput(input)
    /\ attempts' = attempts + 1
    /\ validateCalls' = validateCalls + 1
    /\ HandleException(<<"ValueError", validateCalls + 1>>)
    /\ UNCHANGED <<max_retries, input, calls, execCalls>>
    /\ UNCHANGED <<routeVars, libVars>>

\* an iteration whose input is valid: execute is invoked and awaited
AttemptExecute ==
    /\ rpc = "loop"
    /\ AttemptsRemain(retry_count, max_retries)
    /\ ValidateInput(input)
    /\ attempts' = attempts + 1
    /\ validateCalls' = validateCalls + 1
    /\ execCalls' = execCalls + 1
    /\ rpc' = "executing"
    /\ UNCHANGED <<max_retries, retry_count, input, calls, sleeps, lastExc, outcome>>
    /\ UNCHANGED <<routeVars, libVars>>

\* execute returns: metadata is added and the result returned
ExecuteReturns ==
    /\ rpc = "executing"
    /\ rpc' = "done"
    /\ outcome' = [kind |-> "result", exc |-> NoExc, retry_count |-> retry_count]
    /\ UNCHANGED <<max_retries, retry_count, input, calls, validateCalls, execCalls,
                   attempts, sleeps, lastExc>>
    /\ UNCHANGED <<routeVars, libVars>>

\* execute raises its execCalls-th exception
ExecuteRaises ==
    /\ rpc = "executing"
    /\ HandleException(<<"execute", execCalls>>)
    /\ UNCHANGED <<max_retries, input, calls, validateCalls, execCalls, attempts>>
    /\ UNCHANGED <<routeVars, libVars>>

\* the backoff sleep is over: back to the while condition
SleepDone ==
    /\ rpc = "sleeping"
    /\ rpc' = "loop"
    /\ UNCHANGED <<max_retries, retry_count, input, calls, validateCalls, execCalls,
                   attempts, sleeps, lastExc, outcome>>
    /\ UNCHANGED <<routeVars, libVars>>

\* BaseAgent.__init__ with config {"max_retries": N} or without one
AgentInit ==
    /\ max_retries \in (0..MaxRetriesBound) \cup {DefaultMaxRetries}
    /\ retry_count = 0
    /\ rpc = "idle"
    /\ input = <<>>
    /\ calls = 0
    /\ validateCalls = 0
    /\ execCalls = 0
    /\ attempts = 0
    /\ sleeps = <<>>
    /\ lastExc = NoExc
    /\ outcome = NoOutcome

AgentNext ==
    \/ \E sb \in Storyboards : RunWithRetry(sb)
    \/ LoopExit
    \/ AttemptInvalid
    \/ AttemptExecute
    \/ ExecuteReturns
    \/ ExecuteRaises
    \/ SleepDone


(* ---------------- sessions, queues and events ---------------- *)

\* full:   app/api/routes/full_video_generation.py
\* video:  app/api/routes/video_generation.py
\* legacy: src/api/routes/video_generation.py
Routes == {"full", "video", "legacy"}

\* the generate requests of a run: an earlier one and a later one
Sessions == {1, 2}

\* the stream responses a client reads
Streams == {1}

\* queue objects: the one a handler creates, the one a legacy consumer creates
HandlerQueue(h) == h
ConsumerQueue(c) == Cardinality(Sessions) + c
QueueIds == 1..(Cardinality(Sessions) + Cardinality(Streams))
NoQueue == 0

\* the n-th value uuid.uuid4() produces in the process
Uuid4(n) == <<"uuid", n>>

\* `channel_id: str = str(uuid.uuid4())`: the default is computed once, when the
\* class body runs, and every AppState(prompt=..., input_image_paths=...) gets it
AppStateDefaultChannelId == Uuid4(1)
AppState == [channel_id |-> AppStateDefaultChannelId]
NoState == [channel_id |-> <<"none", 0>>]

\* the ids a GET /stream/{channel_id} may carry
UnknownChannelId == Uuid4(0)
ChannelIds == {AppStateDefaultChannelId, UnknownChannelId}

\* queue items: {"event": ev, "data": ...} dicts and plain strings
Dict(ev, tag, h) == [dict |-> TRUE, event |-> ev, data |-> <<tag, h>>]
Raw(tag, h) == [dict |-> FALSE, event |-> "", data |-> <<tag, h>>]
Progress(tag, h) == Dict("progress", tag, h)
Greeting == Raw("connected", 0)

\* `isinstance(message, dict) and message.get("event") in ["complete", "error"]`
IsTerminalCompleteOnly(msg) == msg.dict /\ msg.event \in {"complete"}
IsTerminal(msg) == msg.dict /\ msg.event \in {"complete", "error"}

\* the lines progress_generator yields for one queue item
EventLine(ev) == [line |-> "event", event |-> ev, data |-> <<"", 0>>]
DataLine(d) == [line |-> "data", event |-> "", data |-> d]
Frames(msg) ==
    IF msg.dict
    THEN (IF msg.event # "message" THEN <<EventLine(msg.event)>> ELSE <<>>)
         \o <<DataLine(msg.data)>>
    ELSE <<DataLine(msg.data)>>

\* what an SSE client reads from the yielded lines: one event per data line,
\* named by the preceding event line, "message" when there is none
RECURSIVE ParseSSE(_, _)
ParseSSE(lines, pending) ==
    IF lines = <<>> THEN <<>>
    ELSE LET l == Head(lines)
         IN  IF l.line = "event"
             THEN ParseSSE(Tail(lines), l.event)
             ELSE <<[event |-> pending, data |-> l.data]>> \o ParseSSE(Tail(lines), "message")

\* asyncio.Queue.get on a non-empty queue: the oldest item
QueueGetNewest(items) ==
    [item |-> items[Len(items)], rest |-> SubSeq(items, 1, Len(items) - 1)]
QueueGet(items) == [item |-> Head(items), rest |-> Tail(items)]

(* ---------------- the generate handlers ---------------- *)

IdleHandler(h) ==
    [id |-> h, pc |-> "idle", sub |-> "-", retry_count |-> 0,
     has_state |-> FALSE, state |-> NoState,
     script |-> "none", images |-> "none", audio |-> "none",
     started |-> <<>>, returned |-> <<>>]

Res(s, msgs, raised) == [s |-> s, msgs |-> msgs, raised |-> raised]

RetryStages == {"Storyboarding", "Narrating", "Assembling"}

\* the order in which the handler's code runs the stages
NextStageAudioFirst(r, stage) ==
    IF r = "full"
    THEN CASE stage = "Analyzing" -> "Scripting"
           [] stage = "Scripting" -> "Narrating"
           [] stage = "Narrating" -> "Storyboarding"
           [] stage = "Storyboarding" -> "Assembling"
           [] OTHER -> "Completed"
    ELSE CASE stage = "Analyzing" -> "Scripting"
           [] OTHER -> "Completed"
NextStage(r, stage) ==
    IF r = "full"
    THEN CASE stage = "Analyzing" -> "Scripting"
           [] stage = "Scripting" -> "Storyboarding"
           [] stage = "Storyboarding" -> "Narrating"
           [] stage = "Narrating" -> "Assembling"
           [] OTHER -> "Completed"
    ELSE CASE stage = "Analyzing" -> "Scripting"
           [] OTHER -> "Completed"

\* validate_input without VideoAgent's check of storyboard_images
StageInputValidAnyImages(s) ==
    CASE s.pc = "Storyboarding" -> s.script \in {"valid", "no_narration"}
      [] s.pc = "Narrating" -> s.script \in {"valid", "no_storyboard"}
      [] s.pc = "Assembling" -> s.script \in {"valid", "no_narration"}
      [] OTHER -> TRUE
\* validate_input of the stage's agent on the kwargs the handler passes
StageInputValid(s) ==
    CASE s.pc = "Storyboarding" -> s.script \in {"valid", "no_narration"}
      [] s.pc = "Narrating" -> s.script \in {"valid", "no_storyboard"}
      [] s.pc = "Assembling" -> s.images = "some" /\ s.script \in {"valid", "no_narration"}
      [] OTHER -> TRUE

\* the event type of the stage's progress callback
ProgressEvent(stage) ==
    CASE stage = "Storyboarding" -> "storyboard_progress"
      [] stage = "Narrating" -> "audio_progress"
      [] stage = "Assembling" -> "video_progress"
      [] OTHER -> "progress"

\* run_with_retry's except block inside the handler's stage call
AttemptFailed(s) ==
    LET rc == s.retry_count + 1
    IN  IF AttemptsRemain(rc, DefaultMaxRetries)
        THEN Res([s EXCEPT !.retry_count = rc, !.sub = "sleeping"], <<>>, FALSE)
        ELSE Res([s EXCEPT !.retry_count = rc, !.sub = "-"], <<>>, TRUE)

\* one iteration of run_with_retry up to its first suspension
BeginAttempt(s) ==
    IF ~AttemptsRemain(s.retry_count, DefaultMaxRetries)
    THEN Res(s, <<>>, TRUE)
    ELSE IF StageInputValid(s)
         THEN Res([s EXCEPT !.sub = "executing"],
                  <<Dict(ProgressEvent(s.pc), "stage_0", s.id)>>, FALSE)
         ELSE AttemptFailed(s)

\* the handler's last statements of the try block
Finish(r, s) ==
    LET t == [s EXCEPT !.pc = "Completed", !.sub = "-"]
    IN  CASE r = "full" ->
               Res(t, <<Progress("video_done", s.id), Dict("video_result", "video", s.id),
                        Progress("all_done", s.id), Dict("final_video", "summary", s.id),
                        Dict("complete", "complete", s.id)>>, FALSE)
          [] r = "video" ->
               Res(t, <<Progress("plan_done", s.id), Progress("skip_media", s.id),
                        Progress("all_done", s.id), Dict("complete", "complete", s.id),
                        Dict("final_results", "results", s.id)>>, FALSE)
          [] OTHER ->
               Res(t, <<Dict("complete", "complete", s.id)>>, FALSE)

\* the handler starts a stage and runs to the stage's first suspension
EnterStage(r, s, stage) ==
    LET t == [s EXCEPT !.pc = stage, !.sub = "executing", !.retry_count = 0,
                       !.started = Append(@, stage)]
    IN  CASE stage = "Completed" -> Finish(r, s)
          [] stage = "Analyzing" ->
               Res(t, <<Progress("analyzer_start", s.id), Progress("vision_init", s.id),
                        Progress("vision_analyze", s.id)>>, FALSE)
          [] stage = "Scripting" ->
               Res(t, <<Progress("script_start", s.id), Progress("script_agent", s.id),
                        Progress("script_analysis", s.id), Progress("script_llm", s.id)>>,
                   FALSE)
          [] OTHER ->
               LET a == BeginAttempt(t)
               IN  Res(a.s, <<Progress("stage_start", s.id)>> \o a.msgs, a.raised)

\* what is published between a stage's return and the start of the next stage
StageDoneMsgs(s) ==
    CASE s.pc = "Analyzing" ->
           <<Progress("analyzer_ok", s.id), Progress("analysis_done", s.id),
             Dict("analysis_result", "analysis", s.id)>>
      [] s.pc = "Scripting" ->
           <<Progress("script_summary", s.id), Progress("script_ok", s.id),
             Progress("script_done", s.id), Dict("script", "script", s.id)>>
      [] s.pc = "Storyboarding" ->
           <<Dict("storyboard_progress", "stage_100", s.id), Progress("images_done", s.id),
             Dict("storyboard_result", "storyboard", s.id)>>
      [] s.pc = "Narrating" ->
           <<Dict("audio_progress", "stage_100", s.id), Progress("audio_done", s.id),
             Dict("audio_result", "audio", s.id)>>
      [] OTHER ->
           <<Dict("video_progress", "stage_100", s.id)>>

\* the values a stage may return that later control flow depends on
StageResults(s) ==
    CASE s.pc = "Scripting" -> {"valid", "no_storyboard"}
      [] s.pc = "Storyboarding" -> {"some", "zero"}
      [] s.pc = "Narrating" -> {"some", "zero"}
      [] OTHER -> {"ok"}

WithResult(s, res) ==
    CASE s.pc = "Scripting" -> [s EXCEPT !.script = res]
      [] s.pc = "Storyboarding" -> [s EXCEPT !.images = res]
      [] s.pc = "Narrating" -> [s EXCEPT !.audio = res]
      [] OTHER -> s

\* the stage's call returned: publish its result and go on to the next stage
AfterStage(r, s, res) ==
    LET t == [WithResult(s, res) EXCEPT !.returned = Append(@, s.pc)]
        n == EnterStage(r, t, NextStage(r, s.pc))
    IN  Res(n.s, StageDoneMsgs(s) \o n.msgs, n.raised)

\* lines "2. Tao state" .. first suspension: AppState, queue creation and
\* registration, the opening events, the first stage
CreateSession(r, s) ==
    LET t == [s EXCEPT !.has_state = TRUE, !.state = AppState]
        opening == IF r = "full" THEN <<Progress("boot", s.id)>>
                   ELSE <<Progress("boot", s.id), Progress("images", s.id)>>
        n == IF t.script = "none"
             THEN EnterStage(r, t, "Analyzing")
             ELSE LET e == EnterStage(r, t, "Storyboarding")
                  IN  Res(e.s, <<Progress("use_script", s.id), Dict("script", "script", s.id)>>
                               \o e.msgs, e.raised)
    IN  Res(n.s, opening \o n.msgs, n.raised)

\* the handler's step takes effect: its puts go to its own queue object; when
\* the step raised, the `except Exception` block publishes the error event on
\* whatever queue the registry pq holds for state.channel_id, if any
CommitErrorToOwnQueue(h, r, pq, qs, log) ==
    LET own == HandlerQueue(h)
        err == Dict("error", "error", h)
        msgs == IF r.raised THEN r.msgs \o <<err>> ELSE r.msgs
    IN  /\ progress_queues' = pq
        /\ hs' = [hs EXCEPT ![h] = IF r.raised
                                   THEN [r.s EXCEPT !.pc = "Failed", !.sub = "-"]
                                   ELSE r.s]
        /\ queues' = [qs EXCEPT ![own] = @ \o msgs]
        /\ put_log' = [log EXCEPT ![own] = @ \o msgs]
Commit(h, r, pq, qs, log) ==
    LET own == HandlerQueue(h)
        qs1 == [qs EXCEPT ![own] = @ \o r.msgs]
        log1 == [log EXCEPT ![own] = @ \o r.msgs]
        target == IF r.s.has_state THEN pq[r.s.state.channel_id] ELSE NoQueue
        err == Dict("error", "error", h)
    IN  /\ progress_queues' = pq
        /\ IF r.raised
           THEN /\ hs' = [hs EXCEPT ![h] = [r.s EXCEPT !.pc = "Failed", !.sub = "-"]]
                /\ IF target # NoQueue
                   THEN /\ queues' = [qs1 EXCEPT ![target] = Append(@, err)]
                        /\ put_log' = [log1 EXCEPT ![target] = Append(@, err)]
                   ELSE /\ queues' = qs1
                        /\ put_log' = log1
           ELSE /\ hs' = [hs EXCEPT ![h] = r.s]
                /\ queues' = qs1
                /\ put_log' = log1

ScriptKinds == {"valid", "no_storyboard"}

\* exceptions the awaited calls may raise in a run
FaultBudget == IF requests = 1 THEN MaxFaults ELSE MaxConcurrentFaults

\* the registry and the queues after `queue = asyncio.Queue();
\* progress_queues[state.channel_id] = queue`
Registered(h) == [progress_queues EXCEPT ![AppState.channel_id] = HandlerQueue(h)]

\* POST /generate-full-video or /generate-video arrives
Generate(h, script, images) ==
    /\ hs[h].pc = "idle"
    /\ h <= requests
    /\ IF h = 1 THEN TRUE ELSE hs[h - 1].pc # "idle"
    /\ script # "none" => route = "full"
    /\ requests > 1 => (script = "none" /\ (images => h = 1))
    /\ LET s == [hs[h] EXCEPT !.script = script]
       IN  IF images
           THEN /\ hs' = [hs EXCEPT ![h] = [s EXCEPT !.pc = "SavingImages"]]
                /\ UNCHANGED <<progress_queues, queues, put_log>>
           ELSE Commit(h, CreateSession(route, s), Registered(h), queues, put_log)
    /\ UNCHANGED <<route, cs>>
    /\ UNCHANGED <<agentVars, libVars>>
    /\ UNCHANGED <<faults, requests>>

\* save_upload_files returned
SaveImagesReturns(h) ==
    /\ hs[h].pc = "SavingImages"
    /\ Commit(h, CreateSession(route, hs[h]), Registered(h), queues, put_log)
    /\ UNCHANGED <<route, cs>>
    /\ UNCHANGED <<agentVars, libVars>>
    /\ UNCHANGED <<faults, requests>>

\* save_upload_files raised: the except block runs with state = None
SaveImagesRaises(h) ==
    /\ hs[h].pc = "SavingImages"
    /\ faults < FaultBudget
    /\ faults' = faults + 1
    /\ UNCHANGED requests
    /\ Commit(h, Res(hs[h], <<>>, TRUE), progress_queues, queues, put_log)
    /\ UNCHANGED <<route, cs>>
    /\ UNCHANGED <<agentVars, libVars>>

\* the awaited stage call (analyzer.run, script_agent.run, execute) returns
StageReturns(h, res) ==
    /\ hs[h].sub = "executing"
    /\ res \in StageResults(hs[h])
    /\ Commit(h, AfterStage(route, hs[h], res), progress_queues, queues, put_log)
    /\ UNCHANGED <<route, cs>>
    /\ UNCHANGED <<agentVars, libVars>>
    /\ UNCHANGED <<faults, requests>>

\* the awaited stage call raises
StageRaises(h) ==
    /\ hs[h].sub = "executing"
    /\ faults < FaultBudget
    /\ faults' = faults + 1
    /\ UNCHANGED requests
    /\ LET s == hs[h]
       IN  IF s.pc \in RetryStages
           THEN Commit(h, AttemptFailed(s), progress_queues, queues, put_log)
           ELSE Commit(h, Res(s, <<Progress("stage_error", h)>>, TRUE),
                       progress_queues, queues, put_log)
    /\ UNCHANGED <<route, cs>>
    /\ UNCHANGED <<agentVars, libVars>>

\* the backoff sleep of the stage's run_with_retry is over
BackoffDone(h) ==
    /\ hs[h].sub = "sleeping"
    /\ Commit(h, BeginAttempt(hs[h]), progress_queues, queues, put_log)
    /\ UNCHANGED <<route, cs>>
    /\ UNCHANGED <<agentVars, libVars>>
    /\ UNCHANGED <<faults, requests>>

(* ---------------- the stream consumers ---------------- *)

IdleConsumer ==
    [pc |-> "idle", channel_id |-> UnknownChannelId, queue |-> NoQueue,
     out |-> <<>>, last |-> Greeting, ended |-> "-"]

\* progress_generator runs to its first yield
OpenStream(c, cid) ==
    IF route = "legacy"
    THEN /\ progress_queues' = [progress_queues EXCEPT ![cid] = ConsumerQueue(c)]
         /\ cs' = [cs EXCEPT ![c] = [pc |-> "yielded", channel_id |-> cid,
                                      queue |-> ConsumerQueue(c), out |-> Frames(Greeting),
                                      last |-> Greeting, ended |-> "-"]]
    ELSE /\ progress_queues' = progress_queues
         /\ IF progress_queues[cid] = NoQueue
            THEN cs' = [cs EXCEPT ![c] =
                          [pc |-> "done", channel_id |-> cid, queue |-> NoQueue,
                           out |-> IF route = "full"
                                   THEN <<EventLine("error"), DataLine(<<"no_queue", 0>>)>>
                                   ELSE <<DataLine(<<"no_queue", 0>>)>>,
                           last |-> Greeting, ended |-> "no_queue"]]
            ELSE cs' = [cs EXCEPT ![c] =
                          [pc |-> "yielded", channel_id |-> cid,
                           queue |-> progress_queues[cid], out |-> Frames(Greeting),
                           last |-> Greeting, ended |-> "-"]]

\* GET /stream/{channel_id} (full route only)
StreamProgress(c, cid) ==
    /\ route = "full"
    /\ cs[c].pc = "idle"
    /\ OpenStream(c, cid)
    /\ UNCHANGED <<route, queues, put_log, hs>>
    /\ UNCHANGED <<agentVars, libVars>>
    /\ UNCHANGED <<faults, requests>>

\* `return StreamingResponse(progress_generator(state.channel_id))` of generate_video
StreamingResponse(h, c) ==
    /\ route \in {"video", "legacy"}
    /\ hs[h].pc = "Completed"
    /\ cs[c].pc = "idle"
    /\ OpenStream(c, hs[h].state.channel_id)
    /\ UNCHANGED <<route, queues, put_log, hs>>
    /\ UNCHANGED <<agentVars, libVars>>
    /\ UNCHANGED <<faults, requests>>

\* queue.get() delivers an item and the generator yields its lines
TakeAndYield(c, qs) ==
    LET q == cs[c].queue
        g == QueueGet(qs[q])
    IN  /\ queues' = [qs EXCEPT ![q] = g.rest]
        /\ cs' = [cs EXCEPT ![c].pc = "yielded",
                            ![c].out = @ \o Frames(g.item),
                            ![c].last = g.item]

\* a generator whose cleanup runs only after a terminal event
CloseStreamKeepOnCancel(c, how) ==
    /\ progress_queues' = IF how = "cancelled" THEN progress_queues
                          ELSE [progress_queues EXCEPT ![cs[c].channel_id] = NoQueue]
    /\ cs' = [cs EXCEPT ![c].pc = "done", ![c].ended = how]

\* `finally: progress_queues.pop(channel_id, None)`
CloseStream(c, how) ==
    /\ progress_queues' = [progress_queues EXCEPT ![cs[c].channel_id] = NoQueue]
    /\ cs' = [cs EXCEPT ![c].pc = "done", ![c].ended = how]

\* the generator is resumed after a yield
ConsumerResume(c) ==
    /\ cs[c].pc = "yielded"
    /\ LET q == cs[c].queue
           first == route = "legacy" /\ cs[c].last = Greeting /\ cs[c].out = Frames(Greeting)
           hello == Raw("received", c)
           qs == IF first THEN [queues EXCEPT ![q] = Append(@, hello)] ELSE queues
       IN  /\ put_log' = IF first THEN [put_log EXCEPT ![q] = Append(@, hello)] ELSE put_log
           /\ IF IsTerminal(cs[c].last)
              THEN /\ CloseStream(c, "terminal")
                   /\ queues' = qs
              ELSE /\ progress_queues' = progress_queues
                   /\ IF qs[q] # <<>>
                      THEN TakeAndYield(c, qs)
                      ELSE /\ cs' = [cs EXCEPT ![c].pc = "waiting"]
                           /\ queues' = qs
    /\ UNCHANGED <<route, hs>>
    /\ UNCHANGED <<agentVars, libVars>>
    /\ UNCHANGED <<faults, requests>>

\* an item arrives while the generator waits in `await queue.get()`
ConsumerWake(c) ==
    /\ cs[c].pc = "waiting"
    /\ queues[cs[c].queue] # <<>>
    /\ TakeAndYield(c, queues)
    /\ UNCHANGED <<route, progress_queues, put_log, hs>>
    /\ UNCHANGED <<agentVars, libVars>>
    /\ UNCHANGED <<faults, requests>>

\* the client disconnects: CancelledError at the current suspension
ConsumerCancel(c) ==
    /\ cs[c].pc \in {"yielded", "waiting"}
    /\ CloseStream(c, "cancelled")
    /\ UNCHANGED <<route, queues, put_log, hs>>
    /\ UNCHANGED <<agentVars, libVars>>
    /\ UNCHANGED <<faults, requests>>

(* ---------------- specifications ---------------- *)

\* no request has arrived at the routes module
RouteInit ==
    /\ route \in Routes
    /\ progress_queues = [cid \in ChannelIds |-> NoQueue]
    /\ queues = [q \in QueueIds |-> <<>>]
    /\ put_log = [q \in QueueIds |-> <<>>]
    /\ hs = [h \in Sessions |-> IdleHandler(h)]
    /\ cs = [c \in Streams |-> IdleConsumer]
    /\ faults = 0

AgentIdle ==
    /\ AgentInit
    /\ max_retries = DefaultMaxRetries

\* one generate request, with or without a script and images
Init ==
    /\ RouteInit
    /\ LibIdle
    /\ AgentIdle
    /\ requests = 1

\* two generate requests whose handlers run concurrently
InitConcurrent ==
    /\ RouteInit
    /\ LibIdle
    /\ AgentIdle
    /\ requests = 2

Next ==
    \/ \E h \in Sessions, script \in ScriptKinds \cup {"none"}, images \in BOOLEAN :
           Generate(h, script, images)
    \/ \E h \in Sessions : SaveImagesReturns(h)
    \/ \E h \in Sessions : SaveImagesRaises(h)
    \/ \E h \in Sessions, res \in {"valid", "no_storyboard", "some", "zero", "ok"} :
           StageReturns(h, res)
    \/ \E h \in Sessions : StageRaises(h)
    \/ \E h \in Sessions : BackoffDone(h)
    \/ \E c \in Streams, cid \in ChannelIds : StreamProgress(c, cid)
    \/ \E h \in Sessions, c \in Streams : StreamingResponse(h, c)
    \/ \E c \in Streams : ConsumerResume(c)
    \/ \E c \in Streams : ConsumerWake(c)
    \/ \E c \in Streams : ConsumerCancel(c)

Spec == Init /\ [][Next]_vars

SpecConcurrent == InitConcurrent /\ [][Next]_vars

\* an agent on its own: the routes module stays idle
AgentSpecInit ==
    /\ AgentInit
    /\ LibIdle
    /\ RouteInit
    /\ route = "full"
    /\ requests = 1

SpecAgent == AgentSpecInit /\ [][AgentNext]_vars

(* ---------------- ModelManager ---------------- *)

ModelTypes == {"tts", "text_llm"}
Providers == {"openai", "elevenlabs"}

\* `.get("priority", 999)`
DefaultPriority == 999
Priorities == {1, 2, DefaultPriority + 1}

\* the JSON objects a config file may hold; a file without "priority" has
\* has_priority = FALSE
ConfigData ==
    [type : ModelTypes, provider : Providers, is_primary : BOOLEAN,
     has_priority : {TRUE}, priority : Priorities]
    \cup [type : ModelTypes, provider : Providers, is_primary : BOOLEAN,
          has_priority : {FALSE}, priority : {0}]

\* _load_all_configs: one entry per config file, in the order glob yields them;
\* a model's name is its position in that order
ConfigDirs == SeqsUpTo(ConfigData, MaxConfigs)

\* [name for name, config in self._configs.items() if config.get("type") == t]
ListModelsByType(cfgs, t) ==
    LET OfType(n) == cfgs[n].type = t
    IN  SelectSeq([n \in 1..Len(cfgs) |-> n], OfType)

\* key=lambda name: self._configs[name].get("priority", 999)
PriorityKey(c) == IF c.has_priority THEN c.priority ELSE DefaultPriority

\* sorted(): stable, ascending by key
RECURSIVE Sorted(_, _)
Sorted(names, cfgs) ==
    IF names = <<>> THEN <<>>
    ELSE LET n == Len(names)
             x == names[n]
             front == Sorted(SubSeq(names, 1, n - 1), cfgs)
             Before(y) == PriorityKey(cfgs[y]) <= PriorityKey(cfgs[x])
             After(y) == ~Before(y)
         IN  SelectSeq(front, Before) \o <<x>> \o SelectSeq(front, After)

GetFallbackChain(cfgs, t) == Sorted(ListModelsByType(cfgs, t), cfgs)

NoProvider == "-"

\* the name found, as a one-element sequence; <<>> for None
GetPrimaryModel(cfgs, t, provider) ==
    LET Match(n) == provider = NoProvider \/ cfgs[n].provider = provider
        IsPrimary(n) == cfgs[n].is_primary
        candidates == SelectSeq(ListModelsByType(cfgs, t), Match)
        primaries == SelectSeq(candidates, IsPrimary)
    IN  IF primaries # <<>> THEN <<Head(primaries)>>
        ELSE IF candidates # <<>> THEN <<candidates[1]>> ELSE <<>>

\* model_manager.get_fallback_chain(model_type)
GetFallbackChainCall(t) ==
    /\ mq' = [op |-> "get_fallback_chain", type |-> t, provider |-> NoProvider,
              result |-> GetFallbackChain(configs, t)]
    /\ UNCHANGED <<configs, gen, story, asm, extVars>>
    /\ UNCHANGED <<agentVars, routeVars>>

\* model_manager.get_primary_model(model_type, provider)
GetPrimaryModelCall(t, provider) ==
    /\ mq' = [op |-> "get_primary_model", type |-> t, provider |-> provider,
              result |-> GetPrimaryModel(configs, t, provider)]
    /\ UNCHANGED <<configs, gen, story, asm, extVars>>
    /\ UNCHANGED <<agentVars, routeVars>>

\* ModelManager(): any config directory
ManagerInit ==
    /\ AgentIdle
    /\ RouteInit
    /\ route = "full"
    /\ requests = 1
    /\ configs \in ConfigDirs
    /\ mq = NoQuery
    /\ gen = IdleGen
    /\ story = IdleStoryboard
    /\ asm = IdleAssembly
    /\ ExtIdle

ManagerNext ==
    \/ \E t \in ModelTypes : GetFallbackChainCall(t)
    \/ \E t \in ModelTypes, provider \in Providers \cup {NoProvider} :
           GetPrimaryModelCall(t, provider)

SpecManager == ManagerInit /\ [][ManagerNext]_vars

(* ---------------- TTSManager, ImageGenManager, TextLLMManager ---------------- *)

GenKinds == {"text", "speech", "image"}

\* the ModelType each capability manager passes to the ModelManager
TypeOf(kind) ==
    CASE kind = "text" -> "text_llm"
      [] kind = "speech" -> "tts"
      [] OTHER -> "image_generation"

\* what the call returns after `logger.error("All ... providers failed")`
FailureValue(kind) == IF kind = "text" THEN "None" ELSE "False"
SuccessValue(kind) == IF kind = "text" THEN "text" ELSE "True"

\* the config object passed as `config=`; it need not be in the registry
ExplicitConfig == 0

\* what one loop iteration may meet:
\*   no_client  get_client returned None: `continue`
\*   raises     the provider call (or saving its output) raised
\*   succeeds   the branch reached its `return`
\*   empty      image: the provider answered with no output, no return is
\*              reached; text: Anthropic answered with empty content,
\*              `return ... if response.content else None`
Outcomes(kind) ==
    {"no_client", "raises", "succeeds"} \cup (IF kind = "speech" THEN {} ELSE {"empty"})

\* the config directories of the generation runs
GenConfigData ==
    [type : {TypeOf(k) : k \in GenKinds}, provider : {"openai"}, is_primary : {FALSE},
     has_priority : {TRUE}, priority : Priorities]
    \cup [type : {TypeOf(k) : k \in GenKinds}, provider : {"openai"}, is_primary : {FALSE},
          has_priority : {FALSE}, priority : {0}]
GenConfigDirs == SeqsUpTo(GenConfigData, MaxConfigs)

\* configs = self.get_fallback_chain(); if config: configs.insert(0, config)
GenerationOrderExplicitLast(cfgs, kind, explicit) ==
    GetFallbackChain(cfgs, TypeOf(kind)) \o (IF explicit THEN <<ExplicitConfig>> ELSE <<>>)
GenerationOrder(cfgs, kind, explicit) ==
    (IF explicit THEN <<ExplicitConfig>> ELSE <<>>) \o GetFallbackChain(cfgs, TypeOf(kind))

\* the loop goes on to the next config, or falls out of the loop and returns
\* the failure value
Continue(g) ==
    IF g.todo = <<>>
    THEN [g EXCEPT !.pc = "done", !.result = FailureValue(g.kind)]
    ELSE g

\* `except Exception as e: logger.warning(...); continue`
AfterRaisePropagates(g) == [g EXCEPT !.pc = "raised", !.result = "exception"]
AfterRaise(g) == Continue(g)

\* generate_text / generate_speech / generate_image is called
GenerateCall(kind, explicit) ==
    /\ gen.pc = "idle"
    /\ gen' = Continue([IdleGen EXCEPT !.pc = "loop", !.kind = kind, !.explicit = explicit,
                                       !.todo = GenerationOrder(configs, kind, explicit)])
    /\ UNCHANGED <<configs, mq, story, asm, extVars>>
    /\ UNCHANGED <<agentVars, routeVars>>

\* the call is given, as `config=`, the config of registry model `name` of the
\* call's type (as get_primary_config() or an entry of get_fallback_chain()
\* yields it): it is inserted in front of the chain, which holds it too
GenerateCallWithChainConfig(kind, name) ==
    /\ gen.pc = "idle"
    /\ \E i \in 1..Len(GetFallbackChain(configs, TypeOf(kind))) :
           GetFallbackChain(configs, TypeOf(kind))[i] = name
    /\ gen' = Continue([IdleGen EXCEPT !.pc = "loop", !.kind = kind, !.explicit = TRUE,
                                       !.explicit_of = name,
                                       !.todo = GenerationOrder(configs, kind, TRUE)])
    /\ UNCHANGED <<configs, mq, story, asm, extVars>>
    /\ UNCHANGED <<agentVars, routeVars>>

\* one iteration of `for ..._config in configs:`
Attempt(oc) ==
    /\ gen.pc = "loop"
    /\ oc \in Outcomes(gen.kind)
    /\ LET g == [gen EXCEPT !.todo = Tail(@),
                            !.visited = Append(@, Head(gen.todo)),
                            !.outcomes = Append(@, oc)]
       IN  gen' = CASE oc = "succeeds" ->
                         [g EXCEPT !.pc = "done", !.result = SuccessValue(g.kind)]
                    [] oc = "raises" -> AfterRaise(g)
                    [] oc = "empty" /\ g.kind = "text" ->
                         [g EXCEPT !.pc = "done", !.result = "None"]
                    [] OTHER -> Continue(g)
    /\ UNCHANGED <<configs, mq, story, asm, extVars>>
    /\ UNCHANGED <<agentVars, routeVars>>

GenerateInit ==
    /\ AgentIdle
    /\ RouteInit
    /\ route = "full"
    /\ requests = 1
    /\ configs \in GenConfigDirs
    /\ mq = NoQuery
    /\ gen = IdleGen
    /\ story = IdleStoryboard
    /\ asm = IdleAssembly
    /\ ExtIdle

GenerateNext ==
    \/ \E kind \in GenKinds, explicit \in BOOLEAN : GenerateCall(kind, explicit)
    \/ \E kind \in GenKinds, name \in 1..MaxConfigs : GenerateCallWithChainConfig(kind, name)
    \/ \E oc \in {"no_client", "raises", "succeeds", "empty"} : Attempt(oc)

SpecGenerate == GenerateInit /\ [][GenerateNext]_vars

(* ---------------- StoryboardAgent.execute_with_streaming ---------------- *)

\* self.config.get("max_concurrent_generations", 3)
DefaultMaxConcurrentGenerations == 3
Limits == 1..DefaultMaxConcurrentGenerations

\* `async with semaphore`: acquire returns at once while the value is positive
SemaphoreAlwaysFree(s) == TRUE
SemaphoreFree(s) == s.sem > 0

\* what generate_image_for_scene meets:
\*   image   generate_image returned True and the file exists: the scene's dict
\*   failed  generate_image returned False, or the file is missing: None
\*   raised  an exception inside the try block: caught, None
SceneOutcomes == {"image", "failed", "raised"}
SceneResult(oc) == IF oc = "image" THEN "dict" ELSE "None"

\* the loop over the results of asyncio.gather(*tasks, return_exceptions=True)
RECURSIVE TallyCountingExceptionsOnly(_)
TallyCountingExceptionsOnly(results) ==
    IF results = <<>>
    THEN [images |-> <<>>, successful |-> 0, failed |-> 0]
    ELSE LET n == Len(results)
             t == TallyCountingExceptionsOnly(SubSeq(results, 1, n - 1))
         IN  CASE results[n] = "exception" -> [t EXCEPT !.failed = @ + 1]
               [] results[n] = "dict" ->
                    [t EXCEPT !.images = Append(@, n), !.successful = @ + 1]
               [] OTHER -> t
RECURSIVE Tally(_)
Tally(results) ==
    IF results = <<>>
    THEN [images |-> <<>>, successful |-> 0, failed |-> 0]
    ELSE LET n == Len(results)
             t == Tally(SubSeq(results, 1, n - 1))
         IN  CASE results[n] = "exception" -> [t EXCEPT !.failed = @ + 1]
               [] results[n] = "dict" ->
                    [t EXCEPT !.images = Append(@, n), !.successful = @ + 1]
               [] OTHER -> [t EXCEPT !.failed = @ + 1]

\* execute_with_streaming is called with n scenes: one task per scene is
\* created and gathered
ExecuteStoryboard(n, limit) ==
    /\ story.pc = "idle"
    /\ story' = [IdleStoryboard EXCEPT !.pc = "gathering", !.limit = limit, !.sem = limit,
                                    !.tasks = [i \in 1..n |-> "waiting"],
                                    !.results = [i \in 1..n |-> "-"]]
    /\ UNCHANGED <<configs, mq, gen, asm, extVars>>
    /\ UNCHANGED <<agentVars, routeVars>>

\* task i enters `async with semaphore` (waiters are served in task order) and
\* runs generate_image_for_scene up to its awaited generate_image call
Acquire(i) ==
    /\ story.pc = "gathering"
    /\ i \in 1..Len(story.tasks)
    /\ story.tasks[i] = "waiting"
    /\ \A j \in 1..(i - 1) : story.tasks[j] # "waiting"
    /\ SemaphoreFree(story)
    /\ story' = [story EXCEPT !.sem = @ - 1, !.tasks[i] = "calling", !.issued = @ \cup {i}]
    /\ UNCHANGED <<configs, mq, gen, asm, extVars>>
    /\ UNCHANGED <<agentVars, routeVars>>

\* the generation call of task i is over; the task leaves the semaphore
SceneDone(i, oc) ==
    /\ story.pc = "gathering"
    /\ i \in 1..Len(story.tasks)
    /\ story.tasks[i] = "calling"
    /\ story' = [story EXCEPT !.sem = @ + 1, !.tasks[i] = "finished",
                        !.results[i] = SceneResult(oc)]
    /\ UNCHANGED <<configs, mq, gen, asm, extVars>>
    /\ UNCHANGED <<agentVars, routeVars>>

\* gather returns: the results are counted and the stage result is built
GatherDone ==
    /\ story.pc = "gathering"
    /\ \A i \in 1..Len(story.tasks) : story.tasks[i] = "finished"
    /\ LET t == Tally(story.results)
       IN  story' = [story EXCEPT !.pc = "done",
                            !.out = [storyboard_images |-> t.images,
                                     total_generated |-> Len(story.tasks),
                                     successful_generations |-> t.successful,
                                     failed_generations |-> t.failed]]
    /\ UNCHANGED <<configs, mq, gen, asm, extVars>>
    /\ UNCHANGED <<agentVars, routeVars>>

StoryboardInit ==
    /\ AgentIdle
    /\ RouteInit
    /\ route = "full"
    /\ requests = 1
    /\ LibIdle

StoryboardNext ==
    \/ \E n \in 1..MaxStoryScenes, limit \in Limits : ExecuteStoryboard(n, limit)
    \/ \E i \in 1..MaxStoryScenes : Acquire(i)
    \/ \E i \in 1..MaxStoryScenes, oc \in SceneOutcomes : SceneDone(i, oc)
    \/ GatherDone

SpecStoryboard == StoryboardInit /\ [][StoryboardNext]_vars

(* ---------------- VideoAgent.execute_with_streaming ---------------- *)

\* the scene_id values of scenes, image results and audio results
SceneIds == 1..MaxAsmScenes

\* sequences over S without repetition
Injective(S, n) == {s \in SeqsUpTo(S, n) : \A a, b \in 1..Len(s) : a # b => s[a] # s[b]}

\* kwargs that pass VideoAgent.validate_input: both lists non-empty; a
\* storyboard is given by the scene_id of each scene, a result list by the
\* scene_id of each entry
AsmStoryboards == Injective(SceneIds, MaxAsmScenes) \ {<<>>}
AsmImageLists == SeqsUpTo(SceneIds, MaxResults) \ {<<>>}
AsmAudioLists == SeqsUpTo(SceneIds, MaxResults)

\* `for x in xs: if x.get("scene_id") == scene_id: found = x; break`:
\* the position of the entry found, 0 for None
FindByPosition(xs, scene_id, position) == IF position <= Len(xs) THEN position ELSE 0
FindBySceneId(xs, scene_id, position) ==
    LET hits == {k \in 1..Len(xs) : xs[k] = scene_id}
    IN  IF hits = {} THEN 0 ELSE CHOOSE k \in hits : \A m \in hits : k <= m

\* scene_videos.append(scene_video_path)
AddClipInFront(clips, c) == <<c>> \o clips
AddClip(clips, c) == Append(clips, c)

\* the for loop runs from scene i on, `continue`-ing over scenes without an
\* image, up to the next create_scene_video call; past the last scene
\* merge_scene_videos is called, which returns False at once for an empty list
RECURSIVE NextWithImage(_, _)
NextWithImage(a, i) ==
    IF i > Len(a.storyboard) THEN i
    ELSE IF FindBySceneId(a.storyboard_images, a.storyboard[i], i) # 0 THEN i
         ELSE NextWithImage(a, i + 1)

Advance(a, from) ==
    LET i == NextWithImage(a, from)
    IN  IF i <= Len(a.storyboard)
        THEN [a EXCEPT !.pc = "creating", !.i = i]
        ELSE IF a.scene_videos = <<>>
             THEN [a EXCEPT !.pc = "raised", !.i = i, !.merge = "no_clips"]
             ELSE [a EXCEPT !.pc = "merging", !.i = i]

\* execute_with_streaming(storyboard_images=..., audio_files=..., storyboard=...)
ExecuteVideo(storyboard, images, audio) ==
    /\ asm.pc = "idle"
    /\ asm' = Advance([IdleAssembly EXCEPT !.storyboard = storyboard,
                                           !.storyboard_images = images,
                                           !.audio_files = audio], 1)
    /\ UNCHANGED <<configs, mq, gen, story, extVars>>
    /\ UNCHANGED <<agentVars, routeVars>>

\* create_scene_video(scene_image, scene_audio, scene, i) returns a path
\* (built) or None (image file missing, FFmpeg failed, timeout, exception)
CreateSceneVideoReturns(built) ==
    /\ asm.pc = "creating"
    /\ LET i == asm.i
           clip == [scene |-> i,
                    image |-> FindBySceneId(asm.storyboard_images, asm.storyboard[i], i),
                    audio |-> FindBySceneId(asm.audio_files, asm.storyboard[i], i),
                    built |-> built]
           a == [asm EXCEPT !.attempts = Append(@, clip),
                            !.scene_videos = IF built THEN AddClip(@, clip) ELSE @]
       IN  asm' = Advance(a, i + 1)
    /\ UNCHANGED <<configs, mq, gen, story, extVars>>
    /\ UNCHANGED <<agentVars, routeVars>>

\* subprocess.run(cmd, timeout=60) raises TimeoutExpired inside
\* create_scene_video: the except clause logs it and returns None
CreateSceneVideoTimesOut ==
    /\ asm.pc = "creating"
    /\ LET i == asm.i
           clip == [scene |-> i,
                    image |-> FindBySceneId(asm.storyboard_images, asm.storyboard[i], i),
                    audio |-> FindBySceneId(asm.audio_files, asm.storyboard[i], i),
                    built |-> FALSE]
           a == [asm EXCEPT !.attempts = Append(@, clip), !.timeouts = @ \cup {i}]
       IN  asm' = Advance(a, i + 1)
    /\ UNCHANGED <<configs, mq, gen, story, extVars>>
    /\ UNCHANGED <<agentVars, routeVars>>

\* merge_scene_videos on a non-empty list returns True, or False (FFmpeg
\* failed, timeout, exception) and the stage raises "Failed to merge scene videos"
MergeReturns(ok) ==
    /\ asm.pc = "merging"
    /\ asm' = IF ok THEN [asm EXCEPT !.pc = "done", !.merge = "ok"]
              ELSE [asm EXCEPT !.pc = "raised", !.merge = "ffmpeg_failed"]
    /\ UNCHANGED <<configs, mq, gen, story, extVars>>
    /\ UNCHANGED <<agentVars, routeVars>>

\* position the model gives the concatenation in the set of timeouts
ConcatPosition == 0

\* subprocess.run(cmd, timeout=120) raises TimeoutExpired inside
\* merge_scene_videos: it returns False and the stage raises
MergeTimesOut ==
    /\ asm.pc = "merging"
    /\ asm' = [asm EXCEPT !.pc = "raised", !.merge = "ffmpeg_failed",
                          !.timeouts = @ \cup {ConcatPosition}]
    /\ UNCHANGED <<configs, mq, gen, story, extVars>>
    /\ UNCHANGED <<agentVars, routeVars>>

AssemblyInit ==
    /\ AgentIdle
    /\ RouteInit
    /\ route = "full"
    /\ requests = 1
    /\ LibIdle

AssemblyNext ==
    \/ /\ asm.pc = "idle"
       /\ \E storyboard \in AsmStoryboards, images \in AsmImageLists, audio \in AsmAudioLists :
              ExecuteVideo(storyboard, images, audio)
    \/ \E built \in BOOLEAN : CreateSceneVideoReturns(built)
    \/ \E ok \in BOOLEAN : MergeReturns(ok)
    \/ CreateSceneVideoTimesOut
    \/ MergeTimesOut

SpecAssembly == AssemblyInit /\ [][AssemblyNext]_vars

(* ---------------- the routes under a fair scheduler ---------------- *)

\* the event loop resumes a handler whose awaited call or sleep has finished
HandlerFairness ==
    \A h \in Sessions :
        /\ WF_vars(SaveImagesReturns(h))
        /\ WF_vars(\E res \in {"valid", "no_storyboard", "some", "zero", "ok"} :
                       StageReturns(h, res))
        /\ WF_vars(BackoffDone(h))

SpecFair == Init /\ [][Next]_vars /\ HandlerFairness

(* ---------------- TextLLMService._validate_and_enhance_script ---------------- *)

\* scene_id values the LLM writes, duration_seconds values it writes, and the
\* total_duration values it declares
SceneIdValues == 1..MaxScriptScenes
DurationValues == {0, 1, 6}
DefaultDurationSeconds == 5
DurationTolerance == 5
DeclaredTotals == (0 - 1)..(6 * MaxScriptScenes + 1)

\* a scene dict of the parsed response: each of the two keys may be missing
RawScenes ==
    { sc \in [has_scene_id : BOOLEAN, scene_id : SceneIdValues \cup {0},
              has_duration : BOOLEAN, duration_seconds : DurationValues \cup {0}] :
          /\ sc.has_scene_id <=> sc.scene_id # 0
          /\ ~sc.has_duration => sc.duration_seconds = 0 }

\* the parsed response: total_duration may be missing
ScriptDatas ==
    { [has_total |-> TRUE, total_duration |-> td, storyboard |-> st] :
          td \in DeclaredTotals, st \in SeqsUpTo(RawScenes, MaxScriptScenes) } \cup
    { [has_total |-> FALSE, total_duration |-> 0, storyboard |-> st] :
          st \in SeqsUpTo(RawScenes, MaxScriptScenes) }

\* scene.setdefault("scene_id", i + 1); scene.setdefault("duration_seconds", 5)
SetDefaults(scene, position) ==
    [has_scene_id |-> TRUE,
     scene_id |-> IF scene.has_scene_id THEN scene.scene_id ELSE position,
     has_duration |-> TRUE,
     duration_seconds |-> IF scene.has_duration THEN scene.duration_seconds
                          ELSE DefaultDurationSeconds]

\* sum(scene.get("duration_seconds", 0) for scene in storyboard)
RECURSIVE CalculatedDuration(_)
CalculatedDuration(storyboard) ==
    IF storyboard = <<>> THEN 0
    ELSE (IF Head(storyboard).has_duration THEN Head(storyboard).duration_seconds ELSE 0)
         + CalculatedDuration(Tail(storyboard))

Abs(x) == IF x < 0 THEN 0 - x ELSE x

\* the total_duration the validation leaves in the script
CorrectedTotalFromFive(declared, calculated) ==
    IF declared <= 0 THEN calculated
    ELSE IF Abs(declared - calculated) >= DurationTolerance THEN calculated
    ELSE declared
CorrectedTotal(declared, calculated) ==
    IF declared <= 0 THEN calculated
    ELSE IF Abs(declared - calculated) > DurationTolerance THEN calculated
    ELSE declared

ValidateAndEnhanceScript(script_data) ==
    LET declared == IF script_data.has_total THEN script_data.total_duration ELSE 0
        storyboard == [i \in 1..Len(script_data.storyboard) |->
                           SetDefaults(script_data.storyboard[i], i)]
    IN  [has_total |-> TRUE,
         total_duration |-> CorrectedTotal(declared, CalculatedDuration(storyboard)),
         storyboard |-> storyboard]

\* generate_script hands the parsed response to the validation
ValidateCall(script_data) ==
    /\ sv' = [pc |-> "done", script_data |-> script_data,
              out |-> ValidateAndEnhanceScript(script_data)]
    /\ UNCHANGED <<cc, au>>
    /\ UNCHANGED <<configs, mq, gen, story, asm>>
    /\ UNCHANGED <<agentVars, routeVars>>

\* the next generate_script call
ValidateAgain ==
    /\ sv.pc = "done"
    /\ sv' = IdleValidation
    /\ UNCHANGED <<cc, au>>
    /\ UNCHANGED <<configs, mq, gen, story, asm>>
    /\ UNCHANGED <<agentVars, routeVars>>

ValidationInit ==
    /\ AgentIdle
    /\ RouteInit
    /\ route = "full"
    /\ requests = 1
    /\ LibIdle

ValidationNext ==
    \/ /\ sv.pc = "idle"
       /\ \E script_data \in ScriptDatas : ValidateCall(script_data)
    \/ ValidateAgain

SpecValidation == ValidationInit /\ [][ValidationNext]_vars

(* ---------------- get_client and the client cache ---------------- *)

\* TTSManager, ImageGenManager, TextLLMManager
ClientManagers == {"tts", "image_gen", "text_llm"}

\* strings are sequences of pieces, "_" being a piece of its own
Str(piece) == <<piece>>
Join(a, b) == a \o <<"_">> \o b

\* the providers whose branch of get_client creates a client
SupportedProviders(manager) ==
    CASE manager = "tts" -> {Str("elevenlabs"), Str("openai")}
      [] manager = "image_gen" -> {Str("replicate"), Str("openai")}
      [] OTHER -> {Str("openai"), Str("anthropic")}

\* config.provider is whatever string the config file holds
ProviderStrings ==
    {Str("openai"), Str("elevenlabs"), Str("replicate"), Str("anthropic"),
     Join(Str("openai"), Str("a"))}

\* config.model_id
ModelIdStrings == {Str("a"), Str("b"), Join(Str("a"), Str("b"))}

\* cache_key = f"{config.provider}_{config.model_id}"
CacheKey(provider, model_id) == Join(provider, model_id)

\* client objects: None, the replicate module, and objects made by a constructor
NoClient == 0
ReplicateModule == 1
NewObject(created) == created + 2

\* the branches of get_client after a cache miss
InitialiseClient(manager, provider, installed, created) ==
    IF provider \in SupportedProviders(manager) /\ installed
    THEN IF provider = Str("replicate") THEN ReplicateModule ELSE NewObject(created)
    ELSE NoClient

Cached(cache, key) == \E e \in cache : e.key = key
CachedClient(cache, key) == (CHOOSE e \in cache : e.key = key).client

\* get_client(config) with config.provider and config.model_id as given
GetClient(provider, model_id) ==
    /\ cc.n < MaxClientCalls
    /\ LET key == CacheKey(provider, model_id)
           hit == Cached(cc.cache, key)
           made == InitialiseClient(cc.manager, provider, cc.installed, cc.created)
           client == IF hit THEN CachedClient(cc.cache, key) ELSE made
           pair == [provider |-> provider, model_id |-> model_id]
       IN  cc' = [cc EXCEPT
                    !.n = @ + 1,
                    !.cache = IF ~hit /\ made # NoClient
                              THEN @ \cup {[key |-> key, client |-> made]} ELSE @,
                    !.created = IF ~hit /\ made >= NewObject(0) THEN @ + 1 ELSE @,
                    !.produced = IF client # NoClient /\ ~\E e \in @ : e.pair = pair
                                 THEN @ \cup {[pair |-> pair, client |-> client]} ELSE @,
                    !.last = [provider |-> provider, model_id |-> model_id,
                              client |-> client, hit |-> hit,
                              initialised |-> ~hit /\ made # NoClient]]
    /\ UNCHANGED <<sv, au>>
    /\ UNCHANGED <<configs, mq, gen, story, asm>>
    /\ UNCHANGED <<agentVars, routeVars>>

\* a capability manager is constructed: empty cache, the provider libraries
\* installed or not
ClientsInit ==
    /\ AgentIdle
    /\ RouteInit
    /\ route = "full"
    /\ requests = 1
    /\ configs = <<>>
    /\ mq = NoQuery
    /\ gen = IdleGen
    /\ story = IdleStoryboard
    /\ asm = IdleAssembly
    /\ sv = IdleValidation
    /\ au = IdleAudio
    /\ \E manager \in ClientManagers, installed \in BOOLEAN :
           cc = [IdleClients EXCEPT !.manager = manager, !.installed = installed]

ClientsNext ==
    \E provider \in ProviderStrings, model_id \in ModelIdStrings : GetClient(provider, model_id)

SpecClients == ClientsInit /\ [][ClientsNext]_vars

(* ---------------- AudioAgent.execute_with_streaming ---------------- *)

\* a scene of the storyboard: scene_id may be missing, narration_segment may
\* be empty
AudioScenes ==
    { sc \in [has_scene_id : BOOLEAN, scene_id : 0..MaxAudioScenes,
              narration_segment : {"", "text"}] :
          sc.has_scene_id <=> sc.scene_id # 0 }
AudioStoryboards == SeqsUpTo(AudioScenes, MaxAudioScenes)

\* scene_id = scene.get("scene_id", i + 1), i counted from 0
SceneIdByPosition(scene, position) == position
SceneIdOf(scene, position) == IF scene.has_scene_id THEN scene.scene_id ELSE position

\* tts_manager.generate_speech is called from generate_audio_for_segment with
\* segment_id f"scene_{scene_id}", or from generate_full_narration_audio
SegmentCall(scene_id) == [kind |-> "segment", scene_id |-> scene_id]
FullCall == [kind |-> "full", scene_id |-> 0]

\* the loop runs from scene i on to the next speech call it awaits: scenes
\* with an empty narration_segment are passed over; after the last scene the
\* call for the full narration is issued
RECURSIVE AudioAdvance(_, _)
AudioAdvance(a, i) ==
    IF i > Len(a.storyboard)
    THEN [a EXCEPT !.pc = "full", !.i = i, !.speech_calls = Append(@, FullCall)]
    ELSE IF a.storyboard[i].narration_segment # ""
         THEN [a EXCEPT !.pc = "segment", !.i = i,
                        !.speech_calls = Append(@, SegmentCall(SceneIdOf(a.storyboard[i], i)))]
         ELSE AudioAdvance(a, i + 1)

\* execute_with_streaming(narration=..., storyboard=...)
ExecuteAudio(storyboard) ==
    /\ au' = AudioAdvance([IdleAudio EXCEPT !.storyboard = storyboard], 1)
    /\ UNCHANGED <<sv, cc>>
    /\ UNCHANGED <<configs, mq, gen, story, asm>>
    /\ UNCHANGED <<agentVars, routeVars>>

\* generate_audio_for_segment returns the audio dict (ok) or None
SegmentDone(ok) ==
    /\ au.pc = "segment"
    /\ LET i == au.i
           id == SceneIdOf(au.storyboard[i], i)
           a == IF ok
                THEN [au EXCEPT !.audio_files = Append(@, id), !.successful = @ + 1]
                ELSE [au EXCEPT !.failed = @ + 1]
       IN  au' = AudioAdvance(a, i + 1)
    /\ UNCHANGED <<sv, cc>>
    /\ UNCHANGED <<configs, mq, gen, story, asm>>
    /\ UNCHANGED <<agentVars, routeVars>>

\* generate_full_narration_audio returns the path (ok) or None; the result
\* dict is returned
FullNarrationDone(ok) ==
    /\ au.pc = "full"
    /\ au' = [au EXCEPT !.pc = "done", !.full = IF ok THEN "path" ELSE "None"]
    /\ UNCHANGED <<sv, cc>>
    /\ UNCHANGED <<configs, mq, gen, story, asm>>
    /\ UNCHANGED <<agentVars, routeVars>>

AudioInit ==
    /\ AgentIdle
    /\ RouteInit
    /\ route = "full"
    /\ requests = 1
    /\ LibIdle

AudioNext ==
    \/ /\ au.pc = "idle"
       /\ \E storyboard \in AudioStoryboards : ExecuteAudio(storyboard)
    \/ \E ok \in BOOLEAN : SegmentDone(ok)
    \/ \E ok \in BOOLEAN : FullNarrationDone(ok)

SpecAudio == AudioInit /\ [][AudioNext]_vars

(* ---------------- the full pipeline when every call succeeds ---------------- *)

\* scene.get("duration_seconds", 5) of the scene with a given scene_id
DurationSecondsOf(scene_id) == 2 + scene_id

\* total_duration += scene.get("duration_seconds", 5)
AddDurationDefault(total, scene_id) == total + DefaultDurationSeconds
AddDuration(total, scene_id) == total + DurationSecondsOf(scene_id)

\* total_duration after the loop: one addition per clip appended to scene_videos
RECURSIVE TotalDuration(_, _)
TotalDuration(storyboard, clips) ==
    IF clips = <<>> THEN 0
    ELSE LET n == Len(clips)
         IN  AddDuration(TotalDuration(storyboard, SubSeq(clips, 1, n - 1)),
                         storyboard[clips[n].scene])

\* final_video["duration_seconds"] of the stage result
FinalVideoDuration == TotalDuration(asm.storyboard, asm.scene_videos)

\* the storyboard of the script: scene k carries scene_id k
ScriptStoryboard(n) == [k \in 1..n |-> k]

\* storyboard_agent.run_with_retry(storyboard=script["storyboard"], ...) reaches
\* execute_with_streaming
PipelineStoryboardStarts(h, n, limit) ==
    /\ hs[h].pc = "Storyboarding"
    /\ hs[h].sub = "executing"
    /\ ExecuteStoryboard(n, limit)

\* the storyboard stage returns its result to the handler
PipelineStoryboardReturns(h) ==
    /\ hs[h].pc = "Storyboarding"
    /\ story.pc = "done"
    /\ StageReturns(h, IF story.out.storyboard_images = <<>> THEN "zero" ELSE "some")

\* video_agent.run_with_retry(storyboard_images=..., audio_files=..., storyboard=...)
\* reaches execute_with_streaming with the lists the earlier stages returned
PipelineVideoStarts(h) ==
    /\ hs[h].pc = "Assembling"
    /\ hs[h].sub = "executing"
    /\ ExecuteVideo(ScriptStoryboard(Len(story.tasks)), story.out.storyboard_images,
                    ScriptStoryboard(Len(story.tasks)))

\* the video stage returns its result to the handler
PipelineVideoReturns(h) ==
    /\ hs[h].pc = "Assembling"
    /\ asm.pc = "done"
    /\ StageReturns(h, "ok")

\* the analyzer, the script agent and the audio agent return
PipelineOtherStageReturns(h, res) ==
    /\ hs[h].pc \in {"Analyzing", "Scripting", "Narrating"}
    /\ res \in {"ok", "valid", "some"}
    /\ StageReturns(h, res)

PipelineInit ==
    /\ Init
    /\ route = "full"

\* one request on the full route; every provider and FFmpeg call succeeds
PipelineNext ==
    \/ \E script \in {"none", "valid"}, images \in BOOLEAN : Generate(1, script, images)
    \/ SaveImagesReturns(1)
    \/ \E res \in {"ok", "valid", "some"} : PipelineOtherStageReturns(1, res)
    \/ \E n \in 1..MaxStoryScenes, limit \in Limits : PipelineStoryboardStarts(1, n, limit)
    \/ \E i \in 1..MaxStoryScenes : Acquire(i)
    \/ \E i \in 1..MaxStoryScenes : SceneDone(i, "image")
    \/ GatherDone
    \/ PipelineStoryboardReturns(1)
    \/ PipelineVideoStarts(1)
    \/ CreateSceneVideoReturns(TRUE)
    \/ MergeReturns(TRUE)
    \/ PipelineVideoReturns(1)
    \/ \E c \in Streams : StreamProgress(c, AppState.channel_id)
    \/ \E c \in Streams : ConsumerResume(c)
    \/ \E c \in Streams : ConsumerWake(c)

SpecPipeline == PipelineInit /\ [][PipelineNext]_vars

\* the server resumes a stream generator after each yield and when an item
\* arrives, and the handler of the video and legacy routes returns its
\* StreamingResponse; whether a client ever opens or drops a stream is not the
\* program's doing
ConsumerFairness ==
    \A c \in Streams :
        /\ WF_vars(ConsumerResume(c))
        /\ WF_vars(ConsumerWake(c))
        /\ \A h \in Sessions : WF_vars(StreamingResponse(h, c))

SpecFairStreams == Init /\ [][Next]_vars /\ HandlerFairness /\ ConsumerFairness

(* ---------------- claims about run_with_retry ---------------- *)

FirstCall == calls = 1
CallRaised == rpc = "done" /\ outcome.kind = "raised"

\* C1: a first call with valid input that ends by raising has invoked execute
\* exactly max_retries + 1 times (each invocation raised) and hands the caller
\* the exception of the last invocation.
C1_AttemptsThenReraise ==
    (FirstCall /\ ValidateInput(input) /\ CallRaised)
        => /\ execCalls = max_retries + 1
           /\ outcome.exc = <<"execute", max_retries + 1>>

C1_Witness ==
    /\ FirstCall /\ ValidateInput(input) /\ CallRaised
    /\ max_retries = DefaultMaxRetries
    /\ execCalls = 4

\* C2: while the input of the call is one validate_input rejects, execute has
\* not been invoked in that call, whatever the position of the call.
C2_InvalidNeverExecutes ==
    (calls >= 1 /\ ~ValidateInput(input)) => execCalls = 0

C2_Witness ==
    /\ calls >= 1 /\ ~ValidateInput(input) /\ CallRaised
    /\ Len(input) > 0
    /\ execCalls = 0

\* C3: a call whose input validate_input rejects validates once, never sleeps
\* and makes no second attempt.
C3_ValidationFailsFast ==
    (calls >= 1 /\ ~ValidateInput(input))
        => /\ validateCalls <= 1
           /\ attempts <= 1
           /\ sleeps = <<>>

\* C4: a first call with valid input that ends by raising has slept exactly
\* max_retries times, the k-th sleep after the k-th failed attempt and 2^k
\* seconds long, and none after the last attempt.
C4_BackoffSchedule ==
    (FirstCall /\ ValidateInput(input) /\ CallRaised)
        => /\ Len(sleeps) = max_retries
           /\ attempts = max_retries + 1
           /\ \A k \in 1..Len(sleeps) : sleeps[k] = <<k, 2 ^ k>>

C4_Witness ==
    /\ FirstCall /\ ValidateInput(input) /\ CallRaised
    /\ sleeps = << <<1, 2>>, <<2, 4>>, <<3, 8>> >>

(* ---------------- claims about the progress channel ---------------- *)

\* the event a producer means by a queue item
Published(msg) == [event |-> IF msg.dict THEN msg.event ELSE "message", data |-> msg.data]

\* the events a client has read from stream c, the greeting left out
Received(c) == Tail(ParseSSE(cs[c].out, "message"))

\* items taken so far from queue q
Taken(q) == Len(put_log[q]) - Len(queues[q])

Attached(c) == cs[c].pc # "idle" /\ cs[c].queue # NoQueue

\* C5: the events the single consumer of a queue has yielded are exactly the
\* first items put into that queue, in put order and once each, and no item
\* behind a terminal event has been taken.
C5_FifoExactlyOnce ==
    \A c \in Streams :
        Attached(c) =>
            LET q == cs[c].queue
                k == Taken(q)
            IN  /\ Len(Received(c)) = k
                /\ \A i \in 1..k : Received(c)[i] = Published(put_log[q][i])
                /\ \A i \in 1..(k - 1) : ~IsTerminal(put_log[q][i])

C5_Witness ==
    \E c \in Streams :
        /\ Attached(c) /\ route = "full"
        /\ cs[c].ended = "terminal"
        /\ Taken(cs[c].queue) >= 3
        /\ Received(c)[Taken(cs[c].queue)].event = "complete"
        /\ queues[cs[c].queue] = <<>>

TerminalEvents == {"complete", "error"}

\* C6: a terminal event is the last thing a consumer yields: no event follows
\* it in the stream, and a consumer that has yielded one is never again waiting
\* on the queue.
C6_EndsAfterTerminal ==
    \A c \in Streams :
        LET ev == ParseSSE(cs[c].out, "message")
        IN  /\ \A i \in 1..(Len(ev) - 1) : ev[i].event \notin TerminalEvents
            /\ cs[c].pc = "waiting" => \A i \in 1..Len(ev) : ev[i].event \notin TerminalEvents

\* the consumer ended on `complete` while a later item is still in its queue
C6_Witness ==
    \E c \in Streams :
        /\ cs[c].ended = "terminal"
        /\ cs[c].last.event = "complete"
        /\ queues[cs[c].queue] # <<>>

\* the queue has been given an `error` event that the consumer went on to yield
C6_WitnessError ==
    \E c \in Streams :
        /\ cs[c].ended = "terminal"
        /\ cs[c].last.event = "error"

\* C7: a queue holds events only once its handler has registered it, and the
\* queue a consumer reads is the one a handler created and registered: the
\* consumer neither creates nor registers a queue, so what the handler
\* published before the consumer started is what the consumer is given first.
C7_ConsumerReadsRegisteredQueue ==
    /\ \A h \in Sessions : put_log[HandlerQueue(h)] # <<>> => hs[h].has_state
    /\ \A c \in Streams :
           Attached(c) =>
               /\ \E h \in Sessions : hs[h].has_state /\ cs[c].queue = HandlerQueue(h)
               /\ Len(Received(c)) >= 1 =>
                      Received(c)[1] = Published(put_log[HandlerQueue(1)][1])

\* C8: two sessions never have the same channel_id, and the registry entry of
\* a session whose handler is still running is that handler's own queue.
C8_UniqueChannelIds ==
    /\ \A h1, h2 \in Sessions :
           (h1 # h2 /\ hs[h1].has_state /\ hs[h2].has_state)
               => hs[h1].state.channel_id # hs[h2].state.channel_id
    /\ \A h \in Sessions :
           (hs[h].has_state /\ hs[h].pc \notin {"Completed", "Failed"})
               => progress_queues[hs[h].state.channel_id] \in {HandlerQueue(h), NoQueue}

(* ---------------- claims about the coordinator ---------------- *)

StageOrder == <<"Analyzing", "Scripting", "Storyboarding", "Narrating", "Assembling">>

\* s is StageOrder[from + 1 .. from + Len(s)]
SegmentOfOrder(s, from) ==
    /\ from + Len(s) <= Len(StageOrder)
    /\ \A i \in 1..Len(s) : s[i] = StageOrder[from + i]

\* C9: the stages a session has started are a run of consecutive stages of
\* Analyzing, Scripting, Storyboarding, Narrating, Assembling (from Analyzing,
\* or from Storyboarding when the client supplied the script); every started
\* stage but the last has returned, so at most one stage is in progress.
C9_StagesSequential ==
    \A h \in Sessions :
        LET st == hs[h].started
            rt == hs[h].returned
        IN  /\ SegmentOfOrder(st, 0) \/ SegmentOfOrder(st, 2)
            /\ Len(rt) <= Len(st)
            /\ Len(st) - Len(rt) <= 1
            /\ rt = SubSeq(st, 1, Len(rt))
            /\ hs[h].pc \in {"Analyzing", "Scripting"} \cup RetryStages
                   => /\ Len(st) = Len(rt) + 1
                      /\ st[Len(st)] = hs[h].pc

C9_Witness ==
    \E h \in Sessions :
        /\ route = "full"
        /\ hs[h].pc = "Completed"
        /\ hs[h].started = StageOrder
        /\ hs[h].returned = StageOrder

\* events with the given name that handler h has put into any queue
RECURSIVE CountEvents(_, _, _)
CountEvents(log, ev, h) ==
    IF log = <<>> THEN 0
    ELSE (IF Head(log).dict /\ Head(log).event = ev /\ Head(log).data[2] = h THEN 1 ELSE 0)
         + CountEvents(Tail(log), ev, h)

RECURSIVE SumOver(_, _, _)
SumOver(qset, ev, h) ==
    IF qset = {} THEN 0
    ELSE LET q == CHOOSE x \in qset : TRUE
         IN  CountEvents(put_log[q], ev, h) + SumOver(qset \ {q}, ev, h)

EventsBy(ev, h) == SumOver(QueueIds, ev, h)

\* the handler ended in its except block after a stage call raised
StageFailed(h) == hs[h].pc = "Failed" /\ hs[h].started # <<>>

\* C10 as claimed: after a stage call raised out of the handler no later stage
\* was started, exactly one error event has been published for the session and
\* no complete event.
C10_ErrorAlwaysPublished ==
    \A h \in Sessions :
        StageFailed(h) =>
            /\ Len(hs[h].started) = Len(hs[h].returned) + 1
            /\ EventsBy("error", h) = 1
            /\ EventsBy("complete", h) = 0

\* C10 as amended: the step in which a stage call raises out of the handler
\* starts no further stage and publishes no complete event; it appends one
\* error event to the queue registered under the session's channel_id when
\* there is one and publishes no error event when there is none; after it the
\* handler publishes nothing and starts nothing.
C10_ErrorIfRegistered ==
    [][\A h \in Sessions :
         /\ (hs[h].pc # "Failed" /\ hs'[h].pc = "Failed" /\ hs'[h].started # <<>>) =>
                LET target == progress_queues[hs[h].state.channel_id]
                IN  /\ hs'[h].started = hs[h].started
                    /\ Len(hs'[h].started) = Len(hs'[h].returned) + 1
                    /\ EventsBy("complete", h)' = 0
                    /\ EventsBy("error", h)' = (IF target # NoQueue THEN 1 ELSE 0)
                    /\ target # NoQueue =>
                           put_log'[target] # <<>> /\
                           put_log'[target][Len(put_log'[target])] = Dict("error", "error", h)
         /\ hs[h].pc = "Failed" =>
                /\ hs'[h] = hs[h]
                /\ EventsBy("error", h)' = EventsBy("error", h)
                /\ EventsBy("complete", h)' = 0
      ]_vars

\* a stage's run_with_retry gave up after the last retry and the error event
\* went to the registered queue
C10_Witness ==
    \E h \in Sessions :
        /\ StageFailed(h)
        /\ hs[h].retry_count = DefaultMaxRetries + 1
        /\ EventsBy("error", h) = 1

\* a stage call raised after the consumer had removed the channel
C10_WitnessDropped ==
    \E h \in Sessions :
        /\ StageFailed(h)
        /\ EventsBy("error", h) = 0
        /\ \E c \in Streams : cs[c].ended = "cancelled"

\* C11: `complete` is the last item a handler puts on a queue: in the put
\* history of every queue no item of handler h follows h's `complete`.
C11_CompleteIsLastPut ==
    \A q \in QueueIds :
        \A i, j \in 1..Len(put_log[q]) :
            (i < j /\ put_log[q][i].dict /\ put_log[q][i].event = "complete")
                => put_log[q][j].data[2] # put_log[q][i].data[2]

(* ---------------- claims about the model managers ---------------- *)

HasPriority(n) == configs[n].has_priority

\* C14: get_fallback_chain(type) returns exactly the configs of that type,
\* each once, ascending by priority; every config without a priority comes
\* after every config that has one; configs of equal priority (or both
\* without one) keep their insertion order.
C14_FallbackChainOrder ==
    mq.op = "get_fallback_chain" =>
        LET R == mq.result
        IN  /\ {R[i] : i \in 1..Len(R)} = {n \in 1..Len(configs) : configs[n].type = mq.type}
            /\ \A i, j \in 1..Len(R) : i # j => R[i] # R[j]
            /\ \A i, j \in 1..Len(R) :
                   i < j =>
                       /\ (HasPriority(R[i]) /\ HasPriority(R[j]))
                              => configs[R[i]].priority <= configs[R[j]].priority
                       /\ ~(~HasPriority(R[i]) /\ HasPriority(R[j]))
                       /\ (HasPriority(R[i]) = HasPriority(R[j])
                             /\ configs[R[i]].priority = configs[R[j]].priority)
                              => R[i] < R[j]

\* C15: get_primary_model(type, provider) returns the first matching config
\* marked is_primary; when none is marked, the first matching element of the
\* priority-ordered fallback chain of the type; None only when nothing matches.
C15_PrimaryModel ==
    mq.op = "get_primary_model" =>
        LET Match(n) == /\ configs[n].type = mq.type
                        /\ mq.provider = NoProvider \/ configs[n].provider = mq.provider
            matching == {n \in 1..Len(configs) : Match(n)}
            primaries == {n \in matching : configs[n].is_primary}
            chain == SelectSeq(GetFallbackChain(configs, mq.type), Match)
        IN  /\ primaries # {} =>
                   mq.result = <<CHOOSE n \in primaries : \A m \in primaries : n <= m>>
            /\ (primaries = {} /\ matching # {}) => mq.result = <<chain[1]>>
            /\ mq.result = <<>> <=> matching = {}

GenStarted == gen.pc # "idle"

\* configs of the registry with the type of the call in progress
OfCallType == {n \in 1..Len(configs) : configs[n].type = TypeOf(gen.kind)}

\* C12: the configs a generation call visits are the explicit config first
\* (when one is given), then registry configs of the call's type, each at most
\* once and ascending by priority; nothing is visited after a success; after
\* an attempt that raised the next config is visited, so a call that ended on a
\* raise has visited every config.
C12_ExplicitThenChain ==
    GenStarted =>
        LET V == gen.visited
            O == gen.outcomes
            first == IF gen.explicit THEN 2 ELSE 1
        IN  /\ Len(O) = Len(V)
            /\ (gen.explicit /\ V # <<>>) => V[1] = ExplicitConfig
            /\ \A i \in first..Len(V) : V[i] \in OfCallType
            /\ \A i, j \in first..Len(V) :
                   i < j =>
                       /\ V[i] # V[j]
                       /\ (HasPriority(V[i]) /\ HasPriority(V[j]))
                              => configs[V[i]].priority <= configs[V[j]].priority
            /\ \A i \in 1..(Len(V) - 1) : O[i] # "succeeds"
            /\ (gen.pc # "loop" /\ V # <<>> /\ O[Len(V)] = "raises")
                   => Len(V) = Cardinality(OfCallType) + first - 1
            /\ gen.result = SuccessValue(gen.kind)
                   => (V # <<>> /\ O[Len(V)] = "succeeds")

\* the explicit config raised, the next config of the chain raised too and the
\* one after it succeeded
C12_Witness ==
    /\ gen.pc = "done"
    /\ gen.explicit
    /\ gen.outcomes = <<"raises", "raises", "succeeds">>
    /\ configs[gen.visited[2]].priority < configs[gen.visited[3]].priority
    /\ gen.visited[3] < gen.visited[2]

AllAttemptsRaised == \A i \in 1..Len(gen.outcomes) : gen.outcomes[i] = "raises"

\* C13: a generation call in which every attempt raised, or that had no config
\* to try, has not let an exception out, and once over it has returned its
\* failure value: False for speech and image, None for text.
C13_FailureValueNoRaise ==
    (GenStarted /\ AllAttemptsRaised) =>
        /\ gen.pc \in {"loop", "done"}
        /\ gen.pc = "done" => gen.result = FailureValue(gen.kind)
        /\ gen.todo = <<>> => gen.pc = "done"

C13_Witness ==
    /\ gen.pc = "done"
    /\ gen.kind = "image"
    /\ gen.outcomes = <<"raises", "raises", "raises">>
    /\ gen.result = "False"

(* ---------------- claims about the Storyboarding stage ---------------- *)

\* scenes whose generation call is in flight
InFlight == {i \in 1..Len(story.tasks) : story.tasks[i] = "calling"}

\* C16: at most max_concurrent_generations scene generation calls are in
\* flight at any moment, whatever the number of scenes.
C16_AtMostLimitInFlight == Cardinality(InFlight) <= story.limit

\* more scenes than the default limit: the limit is reached and a scene waits
C16_Witness ==
    /\ story.limit = DefaultMaxConcurrentGenerations
    /\ Len(story.tasks) > story.limit
    /\ Cardinality(InFlight) = story.limit
    /\ \E i \in 1..Len(story.tasks) : story.tasks[i] = "waiting"

\* C17: whatever scenes fail, the stage issues the call of every scene and
\* returns (it does not raise) with successful_generations +
\* failed_generations = n and successful_generations = the number of entries
\* of storyboard_images.
C17_CountsAddUp ==
    story.pc = "done" =>
        /\ story.issued = 1..Len(story.tasks)
        /\ story.out.total_generated = Len(story.tasks)
        /\ story.out.successful_generations + story.out.failed_generations = Len(story.tasks)
        /\ story.out.successful_generations = Len(story.out.storyboard_images)
        /\ \A k \in 1..Len(story.out.storyboard_images) :
               story.results[story.out.storyboard_images[k]] = "dict"

\* some scenes failed, one of them the first, and a later scene succeeded
C17_Witness ==
    /\ story.pc = "done"
    /\ Len(story.tasks) >= 3
    /\ story.results[1] = "None"
    /\ story.out.successful_generations >= 1
    /\ story.out.failed_generations >= 2

(* ---------------- claims about the Analyzing stage ---------------- *)

\* C20: a failure of the Analyzing stage's vision/text call never puts the
\* session into Failed: a session is never Failed with Analyzing as the last
\* stage it started.
C20_AnalyzingFailureNotFatal ==
    \A h \in Sessions :
        ~(/\ hs[h].pc = "Failed"
          /\ hs[h].started # <<>>
          /\ hs[h].started[Len(hs[h].started)] = "Analyzing")

(* ---------------- claims about the Assembling stage ---------------- *)

\* the scenes the loop has dealt with
ScenesPassed ==
    IF asm.pc = "creating" THEN 1..(asm.i - 1)
    ELSE IF asm.pc = "idle" THEN {} ELSE 1..Len(asm.storyboard)

HasImage(i) == \E k \in 1..Len(asm.storyboard_images) : asm.storyboard_images[k] = asm.storyboard[i]
HasAudio(i) == \E k \in 1..Len(asm.audio_files) : asm.audio_files[k] = asm.storyboard[i]

\* C18: every create_scene_video call is given an image result whose scene_id
\* is the scene's, and an audio result whose scene_id is the scene's when there
\* is one, wherever they stand in their lists; a scene with an image and no
\* audio result still gets its call, with no audio.
C18_PairedBySceneId ==
    /\ \A k \in 1..Len(asm.attempts) :
           LET c == asm.attempts[k]
               id == asm.storyboard[c.scene]
           IN  /\ c.image # 0 /\ asm.storyboard_images[c.image] = id
               /\ c.audio # 0 => asm.audio_files[c.audio] = id
               /\ c.audio = 0 <=> ~HasAudio(c.scene)
    /\ \A i \in ScenesPassed :
           HasImage(i) => \E k \in 1..Len(asm.attempts) : asm.attempts[k].scene = i

\* scenes 1 and 2 with the image results in the order 2, 1 and audio for scene 1 only
C18_Witness ==
    /\ asm.pc = "done"
    /\ asm.storyboard = <<1, 2>>
    /\ asm.storyboard_images = <<2, 1>>
    /\ asm.audio_files = <<1>>
    /\ Len(asm.scene_videos) = 2
    /\ asm.scene_videos[1].image = 2 /\ asm.scene_videos[1].audio = 1
    /\ asm.scene_videos[2].image = 1 /\ asm.scene_videos[2].audio = 0

ClipsInStoryboardOrder ==
    \A a, b \in 1..Len(asm.scene_videos) :
        a < b => asm.scene_videos[a].scene < asm.scene_videos[b].scene

ClipsExactlyBuiltScenes ==
    /\ {asm.scene_videos[k].scene : k \in 1..Len(asm.scene_videos)}
           = {asm.attempts[k].scene : k \in {m \in 1..Len(asm.attempts) : asm.attempts[m].built}}
    /\ {asm.attempts[k].scene : k \in 1..Len(asm.attempts)}
           = {i \in ScenesPassed : HasImage(i)}

\* C19 as claimed: the clips given to concatenation are in storyboard order
\* and are exactly the clips of the scenes with a matching image whose clip
\* was built; skipping scenes without an image never fails the stage: when the
\* stage raises, a clip build or the FFmpeg merge has failed.
C19_SkipNeverFails ==
    /\ ClipsInStoryboardOrder
    /\ ClipsExactlyBuiltScenes
    /\ asm.pc = "raised" =>
           \/ asm.merge = "ffmpeg_failed"
           \/ \E k \in 1..Len(asm.attempts) : ~asm.attempts[k].built

\* C19 as amended: order and content as claimed; a scene without an image is
\* skipped, and the stage raises exactly when no clip at all was built or the
\* FFmpeg merge failed.
C19_SkipUnlessNoClip ==
    /\ ClipsInStoryboardOrder
    /\ ClipsExactlyBuiltScenes
    /\ asm.pc = "raised" =>
           \/ asm.merge = "ffmpeg_failed" /\ asm.scene_videos # <<>>
           \/ asm.merge = "no_clips" /\ asm.scene_videos = <<>>
    /\ asm.pc = "done" => asm.scene_videos # <<>> /\ asm.merge = "ok"
    /\ (asm.pc \in {"merging", "done", "raised"} /\ asm.scene_videos = <<>>)
           => asm.pc = "raised"

\* the image results arrive in the order 1, 2 for the storyboard 2, 1
C19_Witness ==
    /\ asm.pc = "done"
    /\ asm.storyboard = <<2, 1>>
    /\ asm.storyboard_images = <<1, 2>>
    /\ Len(asm.scene_videos) = 2
    /\ asm.scene_videos[1].image = 2
    /\ asm.scene_videos[2].image = 1

\* a scene without an image was skipped and the stage returned
C19_WitnessSkipped ==
    /\ asm.pc = "done"
    /\ \E i \in 1..Len(asm.storyboard) : ~HasImage(i)

(* ---------------- claims about total failure of a stage ---------------- *)

\* session h has started the stage
Started(h, stage) == \E i \in 1..Len(hs[h].started) : hs[h].started[i] = stage

\* session h's stage call has returned
Returned(h, stage) == \E i \in 1..Len(hs[h].returned) : hs[h].returned[i] = stage

\* the Scripting stage ran and its text-generation call failed: the script it
\* left behind has no storyboard
ScriptingProducedNoScript(h) ==
    /\ Started(h, "Scripting")
    /\ hs[h].script = "no_storyboard"

\* C21: when the text-generation call of the Scripting stage fails, the
\* session fails at that stage: Storyboarding is not started, the session is
\* Failed and no complete event is published.
C21_ScriptingFailureStopsPipeline ==
    \A h \in Sessions :
        ScriptingProducedNoScript(h) =>
            /\ ~Started(h, "Storyboarding")
            /\ hs[h].pc = "Failed"
            /\ EventsBy("complete", h) = 0

\* the Storyboarding stage of session h returned without a single image
ZeroImages(h) == Returned(h, "Storyboarding") /\ hs[h].images = "zero"

ZeroAudio(h) == Returned(h, "Narrating") /\ hs[h].audio = "zero"

\* C23: a session whose Narrating stage produced zero audio segments never
\* reaches Completed and never publishes a complete event.
C23_ZeroAudioNeverCompletes ==
    \A h \in Sessions :
        ZeroAudio(h) =>
            /\ hs[h].pc # "Completed"
            /\ EventsBy("complete", h) = 0

(* ---------------- claims about the script post-validation ---------------- *)

\* the declared total of the validated script data (0 when the key is missing)
DeclaredTotal == IF sv.script_data.has_total THEN sv.script_data.total_duration ELSE 0

\* the sum of the scenes' duration_seconds after the defaults are filled in
SumOfDurations == CalculatedDuration(sv.out.storyboard)

\* C24: the validation replaces total_duration by the sum of the scenes'
\* duration_seconds exactly when the declared total is <= 0 or differs from
\* the sum by more than 5; otherwise, a difference of exactly 5 included, the
\* declared value is kept.
C24_TotalDurationCorrection ==
    sv.pc = "done" =>
        IF DeclaredTotal <= 0 \/ Abs(DeclaredTotal - SumOfDurations) > 5
        THEN sv.out.total_duration = SumOfDurations
        ELSE sv.out.total_duration = DeclaredTotal

\* a declared total exactly 5 above the sum is kept
C24_Witness ==
    /\ sv.pc = "done"
    /\ SumOfDurations = 7
    /\ DeclaredTotal = 12
    /\ sv.out.total_duration = 12

\* the explicit scene_ids of the script handed to the validation are distinct
ExplicitIdsDistinct ==
    \A i, j \in 1..Len(sv.script_data.storyboard) :
        LET a == sv.script_data.storyboard[i]
            b == sv.script_data.storyboard[j]
        IN  (i # j /\ a.has_scene_id /\ b.has_scene_id) => a.scene_id # b.scene_id

\* C25: after the validation, the backfilled scene_ids included, no two scenes
\* of the storyboard have the same scene_id (given that the scene_ids the
\* response carried were distinct).
C25_SceneIdsUnique ==
    (sv.pc = "done" /\ ExplicitIdsDistinct) =>
        \A i, j \in 1..Len(sv.out.storyboard) :
            i # j => sv.out.storyboard[i].scene_id # sv.out.storyboard[j].scene_id

(* ---------------- claims about the attempt counter ---------------- *)

\* C28: over any sequence of run_with_retry calls on one agent instance,
\* retry_count never decreases and never exceeds max_retries + 1.
C28_RetryCountMonotoneAndCapped ==
    /\ [](retry_count <= max_retries + 1)
    /\ [][retry_count' >= retry_count]_vars

\* a second call on an instance whose first call used up every attempt
C28_Witness ==
    /\ calls = 2
    /\ rpc = "done"
    /\ max_retries > 0
    /\ retry_count = max_retries + 1
    /\ outcome.kind = "none_returned"

(* ---------------- claims about the channel registry ---------------- *)

\* stream consumer c ends in this step
ConsumerEnds(c) == cs[c].pc \in {"yielded", "waiting"} /\ cs'[c].pc = "done"

\* C26: when the stream consumer is cancelled, and when it ends after a
\* terminal event, it removes the entry of its channel_id from progress_queues,
\* leaves every other entry alone and ends without raising.
C26_ConsumerRemovesChannel ==
    [][\A c \in Streams :
         ConsumerEnds(c) =>
             /\ cs'[c].ended \in {"cancelled", "terminal"}
             /\ progress_queues'[cs[c].channel_id] = NoQueue
             /\ \A cid \in ChannelIds \ {cs[c].channel_id} :
                    progress_queues'[cid] = progress_queues[cid]
      ]_vars

\* the consumer was cancelled with nothing left to read on its queue, after
\* it had delivered an event of the session
C26_Witness ==
    \E c \in Streams, h \in Sessions :
        /\ cs[c].ended = "cancelled"
        /\ hs[h].has_state /\ hs[h].state.channel_id = cs[c].channel_id
        /\ queues[cs[c].queue] = <<>>
        /\ Len(cs[c].out) > Len(Frames(Greeting))
        /\ progress_queues[cs[c].channel_id] = NoQueue

\* the consumer ended after a terminal event
C26_WitnessTerminal ==
    \E c \in Streams :
        /\ cs[c].ended = "terminal"
        /\ IsTerminal(cs[c].last)
        /\ progress_queues[cs[c].channel_id] = NoQueue

\* handler h, whose session has no queue registered under its channel_id,
\* takes a step
StepWithoutChannel(h) ==
    /\ hs[h].has_state
    /\ progress_queues[hs[h].state.channel_id] = NoQueue
    /\ hs'[h] # hs[h]

\* C27 as claimed: a publication for a session that has no channel in the
\* registry creates no queue, modifies no queue and raises nothing.
C27_PublishWithoutChannelIsNoOp ==
    [][\A h \in Sessions :
         StepWithoutChannel(h) =>
             /\ progress_queues' = progress_queues
             /\ queues' = queues
             /\ put_log' = put_log
      ]_vars

\* xs is an initial part of ys
IsPrefix(xs, ys) == Len(xs) <= Len(ys) /\ xs = SubSeq(ys, 1, Len(xs))

\* C27 as amended: when the session has no channel in the registry, the
\* handler's publication of the error event is a silent no-op (no error event
\* is put on any queue, no queue is registered), while its progress and data
\* events are still appended to the queue object the handler created, which
\* the registry no longer holds; no other queue is touched.
C27_ErrorDroppedWithoutChannel ==
    [][\A h \in Sessions :
         StepWithoutChannel(h) =>
             /\ progress_queues' = progress_queues
             /\ EventsBy("error", h)' = EventsBy("error", h)
             /\ \A q \in QueueIds \ {HandlerQueue(h)} :
                    queues'[q] = queues[q] /\ put_log'[q] = put_log[q]
             /\ IsPrefix(queues[HandlerQueue(h)], queues'[HandlerQueue(h)])
             /\ IsPrefix(put_log[HandlerQueue(h)], put_log'[HandlerQueue(h)])
      ]_vars

\* the handler failed after its channel was gone: no error event anywhere,
\* and the events it published meanwhile sit on its unregistered queue
C27_Witness ==
    \E h \in Sessions :
        /\ hs[h].pc = "Failed"
        /\ hs[h].has_state
        /\ progress_queues[hs[h].state.channel_id] = NoQueue
        /\ EventsBy("error", h) = 0
        /\ queues[HandlerQueue(h)] # <<>>

(* ---------------- claims about the client cache ---------------- *)

\* the get_client call of this step
CallMade == cc'.n = cc.n + 1

\* C29: once get_client has produced a client for a (provider, model_id)
\* pair, every later call for that pair returns the same client without
\* initialising one, a call for a different pair never returns it, and no
\* cache entry is removed or replaced.
C29_ClientPerPair ==
    [][CallMade =>
         /\ \A e \in cc.produced :
                IF e.pair.provider = cc'.last.provider /\ e.pair.model_id = cc'.last.model_id
                THEN cc'.last.client = e.client /\ ~cc'.last.initialised
                ELSE cc'.last.client # e.client
         /\ cc.cache \subseteq cc'.cache
      ]_vars

\* C29, the part about the same pair and about the entries: a later call for
\* a pair that has a client returns that client without initialising one,
\* and the cache only grows.
C29_SamePairSameClient ==
    [][CallMade =>
         /\ \A e \in cc.produced :
                (e.pair.provider = cc'.last.provider /\ e.pair.model_id = cc'.last.model_id)
                    => (cc'.last.client = e.client /\ ~cc'.last.initialised)
         /\ cc.cache \subseteq cc'.cache
      ]_vars

(* ---------------- claims about the Narrating stage ---------------- *)

\* the speech calls the claim asks for the scenes from position i on
RECURSIVE ExpectedSegmentCalls(_, _)
ExpectedSegmentCalls(storyboard, i) ==
    IF i > Len(storyboard) THEN <<>>
    ELSE (IF storyboard[i].narration_segment # ""
          THEN <<[kind |-> "segment",
                  scene_id |-> IF storyboard[i].has_scene_id THEN storyboard[i].scene_id
                               ELSE i]>>
          ELSE <<>>)
         \o ExpectedSegmentCalls(storyboard, i + 1)

\* C30: Narrating issues one speech call for each scene with a non-empty
\* narration_segment and none for the others, in storyboard order and tagged
\* with the scene's scene_id (its 1-based position when it has none), then
\* exactly one call for the full narration; successful_generations +
\* failed_generations equals the number of non-empty segments.
C30_OneCallPerSegmentPlusFull ==
    LET expected == ExpectedSegmentCalls(au.storyboard, 1)
    IN  /\ au.pc \in {"full", "done"} =>
               /\ au.speech_calls = expected \o <<[kind |-> "full", scene_id |-> 0]>>
               /\ au.successful + au.failed = Len(expected)
               /\ Len(au.audio_files) = au.successful
        /\ au.pc = "segment" =>
               /\ au.speech_calls = SubSeq(expected, 1, Len(au.speech_calls))
               /\ au.successful + au.failed = Len(au.speech_calls) - 1

\* a scene with an empty segment was passed over, a scene with an explicit id
\* off its position got its call, which failed, and the full narration followed
C30_Witness ==
    /\ au.pc = "done"
    /\ Len(au.storyboard) = 2
    /\ au.storyboard[1].has_scene_id /\ au.storyboard[1].scene_id = 2
    /\ au.storyboard[1].narration_segment # ""
    /\ au.storyboard[2].narration_segment = ""
    /\ au.speech_calls = <<[kind |-> "segment", scene_id |-> 2], [kind |-> "full", scene_id |-> 0]>>
    /\ au.failed = 1

(* ---------------- claims about subprocess timeouts ---------------- *)

\* C31: a timeout of a video-composition subprocess, for a scene's clip or
\* for the concatenation, makes the Assembling attempt fail: an attempt in
\* which a subprocess timed out does not return a result.
C31_TimeoutFailsAttempt ==
    asm.timeouts # {} => asm.pc # "done"

\* the part of C31 about the concatenation: a timeout there makes the attempt
\* raise
C31_ConcatTimeoutRaises ==
    ConcatPosition \in asm.timeouts => asm.pc = "raised"

(* ---------------- claims about check-then-mutate ---------------- *)

\* handler h's error event is appended to queue q in this step
ErrorPutOn(h, q) ==
    /\ Len(put_log'[q]) > Len(put_log[q])
    /\ put_log'[q][Len(put_log'[q])] = Dict("error", "error", h)

RECURSIVE SumOfSceneDurations(_)
SumOfSceneDurations(ids) ==
    IF ids = <<>> THEN 0
    ELSE DurationSecondsOf(ids[1]) + SumOfSceneDurations(Tail(ids))

\* C33: when every provider and composition call succeeds for an n-scene
\* storyboard, the session ends Completed with a `complete` event and no
\* `error` event, the storyboard stage reports n successful and 0 failed
\* generations, and the final video's duration is the sum of the scenes'
\* duration_seconds
C33_AllSucceedCompletes ==
    /\ \A h \in Sessions :
           /\ hs[h].pc # "Failed"
           /\ EventsBy("error", h) = 0
           /\ hs[h].pc = "Completed" =>
                  /\ EventsBy("complete", h) = 1
                  /\ story.out.successful_generations = Len(story.tasks)
                  /\ story.out.failed_generations = 0
                  /\ asm.storyboard = ScriptStoryboard(Len(story.tasks))
                  /\ FinalVideoDuration = SumOfSceneDurations(asm.storyboard)
    /\ story.pc = "done" =>
           /\ story.out.successful_generations = Len(story.tasks)
           /\ story.out.failed_generations = 0
    /\ asm.pc = "done" => FinalVideoDuration = SumOfSceneDurations(asm.storyboard)

C33_Witness ==
    /\ hs[1].pc = "Completed"
    /\ Len(story.tasks) = MaxStoryScenes
    /\ story.out.successful_generations = MaxStoryScenes
    /\ Len(asm.scene_videos) = MaxStoryScenes
    /\ FinalVideoDuration = SumOfSceneDurations(ScriptStoryboard(MaxStoryScenes))
    /\ \E c \in Streams : cs[c].ended = "terminal" /\ cs[c].last = Dict("complete", "complete", 1)

\* the result events of the full route and the first event of each stage
ResultEventTypes ==
    {"analysis_result", "script", "storyboard_result", "audio_result", "video_result",
     "final_video", "complete"}
IsStageStart(msg) ==
    msg.dict /\ msg.event = "progress"
             /\ msg.data[1] \in {"analyzer_start", "script_start", "stage_start"}
IsResultEvent(msg) == msg.dict /\ msg.event \in ResultEventTypes
IsMilestone(msg) == IsStageStart(msg) \/ IsResultEvent(msg)

\* stage starts and result events of a session that runs all five stages
FullSessionMilestones(h) ==
    <<Progress("analyzer_start", h), Dict("analysis_result", "analysis", h),
      Progress("script_start", h), Dict("script", "script", h),
      Progress("stage_start", h), Dict("storyboard_result", "storyboard", h),
      Progress("stage_start", h), Dict("audio_result", "audio", h),
      Progress("stage_start", h), Dict("video_result", "video", h),
      Dict("final_video", "summary", h), Dict("complete", "complete", h)>>

\* the result event of each stage
StageResultEvent(stage) ==
    CASE stage = "Analyzing" -> "analysis_result"
      [] stage = "Scripting" -> "script"
      [] stage = "Storyboarding" -> "storyboard_result"
      [] stage = "Narrating" -> "audio_result"
      [] OTHER -> "video_result"

\* C34: in a generate_full_video session without a client-supplied script the
\* result events are published in the order analysis_result, script,
\* storyboard_result, audio_result, video_result, final_video, complete, each
\* exactly once in a successful session, and each only after its stage has
\* returned and before the next stage starts
C34_ResultEventsInStageOrder ==
    \A h \in Sessions :
        (route = "full" /\ Started(h, "Analyzing")) =>
            LET log == SelectSeq(put_log[HandlerQueue(h)], IsMilestone)
            IN  /\ IsPrefix(log, FullSessionMilestones(h))
                /\ \A stage \in {"Analyzing", "Scripting", "Storyboarding", "Narrating",
                                 "Assembling"} :
                       Returned(h, stage) <=> EventsBy(StageResultEvent(stage), h) = 1
                /\ hs[h].pc = "Completed" => log = FullSessionMilestones(h)
                /\ \A q \in QueueIds \ {HandlerQueue(h)} :
                       SelectSeq(put_log[q], IsResultEvent) = <<>>

C34_Witness ==
    \E h \in Sessions :
        /\ route = "full"
        /\ Started(h, "Analyzing")
        /\ hs[h].pc = "Completed"
        /\ SelectSeq(put_log[HandlerQueue(h)], IsResultEvent) =
               <<Dict("analysis_result", "analysis", h), Dict("script", "script", h),
                 Dict("storyboard_result", "storyboard", h), Dict("audio_result", "audio", h),
                 Dict("video_result", "video", h), Dict("final_video", "summary", h),
                 Dict("complete", "complete", h)>>

\* C35: each run_with_retry call has the full retry budget: the attempt
\* counter is 0 when a call starts, and every call ends by returning a result
\* or by raising
C35_EveryCallStartsAfresh ==
    /\ (rpc = "loop" /\ attempts = 0) => retry_count = 0
    /\ rpc = "done" => outcome.kind \in {"result", "raised"}

\* C36: a consumer's cleanup removes only the queue it was reading: when the
\* registry entry of its channel_id has been replaced by a newer queue, the
\* ending of the older consumer leaves the newer entry in the registry
C36_CleanupRemovesOwnQueueOnly ==
    [][\A c \in Streams :
           (/\ ConsumerEnds(c)
            /\ progress_queues[cs[c].channel_id] # NoQueue
            /\ progress_queues[cs[c].channel_id] # cs[c].queue) =>
               progress_queues'[cs[c].channel_id] = progress_queues[cs[c].channel_id]
      ]_vars

\* every handler of the run has finished, successfully or with an error
HandlersFinished == \A h \in 1..requests : hs[h].pc \in {"Completed", "Failed"}

\* consumer c waits in `await queue.get()` on an empty queue
BlockedOnEmptyQueue(c) == cs[c].pc = "waiting" /\ queues[cs[c].queue] = <<>>

\* C37: every stream consumer attached to a session's channel terminates once
\* the session's handler has finished: it is never left blocked on a queue
\* into which no terminal event will be put
C37_NoConsumerBlockedAfterHandler ==
    \A c \in Streams : ~(HandlersFinished /\ BlockedOnEmptyQueue(c))

\* session h has ended and had registered a queue
SessionEnded(h) == hs[h].pc \in {"Completed", "Failed"} /\ hs[h].has_state

\* C38: every queue registered in progress_queues is eventually removed once
\* its session has ended, also when the session failed and when no consumer
\* ever connected to its stream
C38_RegistryEventuallyEmptied ==
    \A h \in Sessions :
        SessionEnded(h) ~> (progress_queues[AppState.channel_id] = NoQueue)

\* the registry config attempted by the i-th iteration of the call's loop: the
\* explicit config stands for the registry model it was built from (0: none)
ConfigAttempted(i) ==
    IF gen.visited[i] = ExplicitConfig THEN gen.explicit_of ELSE gen.visited[i]

\* C39: within one generation call each provider config is attempted at most
\* once, also when the explicitly supplied config is itself a member of the
\* fallback chain
C39_EachConfigAttemptedOnce ==
    GenStarted =>
        \A i, j \in 1..Len(gen.visited) :
            (i < j /\ ConfigAttempted(i) # 0) => ConfigAttempted(i) # ConfigAttempted(j)

====
